---------------------------- MODULE Spec2Model ----------------------------
(***************************************************************************)
(* BlenderMCP command protocol: the host-side polling server of            *)
(* src/addon.py (BlenderMCPServer) and the client-side connection manager   *)
(* of src/blender_mcp_server.py (BlenderConnection).                        *)
(*                                                                         *)
(* Wire bytes are symbolic.  A symbol stands for one byte or for a run of   *)
(* ASCII bytes inside which json.loads behaves as at the run's ends (a      *)
(* document cut inside the run is as incomplete as one cut before it):      *)
(*   a type name    the start of a request:  {"type": "<name>"              *)
(*   "{"            the start of an object without members                  *)
(*   "}"            the brace that ends the object                          *)
(*   "P0"           the member  , "params": {}                              *)
(*   "P<" ... ">}"  the member  , "params": {"name": "..."}  and the brace  *)
(*                  that ends the object                                    *)
(*   "a"            an ASCII character inside that string                   *)
(*   "C3" "A9"      the two bytes of the UTF-8 encoding of U+00E9           *)
(*   "null"         the JSON document null (a value that is no object)      *)
(*   "ws"           a whitespace byte                                       *)
(***************************************************************************)
EXTENDS Integers, Sequences, FiniteSets, TLC

(* ------------------------------ bounds -------------------------------- *)

\* connections the peers may open in one behaviour
MaxConns == 2

\* writes the peers may make in one behaviour
MaxWrites == 2

\* calls of send_command in one behaviour
MaxCalls == 2

(* ------------------------- program constants -------------------------- *)

\* the re-invoke delay _process_server returns, in seconds
DELAY == "0.1"

\* the backlog of listen(): connections that wait for accept
BACKLOG == 1

\* the value that tells the scheduler to stop re-invoking (Python None)
None == "None"

\* sock.settimeout(15.0): the seconds a recv of the client waits at most
TIMEOUT == 15

CONTEXT_TYPES == {"create_object", "modify_object", "delete_object"}

BASE_HANDLERS ==
  {"get_scene_info", "create_object", "modify_object", "delete_object",
   "get_object_info", "execute_code", "set_material", "get_polyhaven_status"}

POLYHAVEN_HANDLERS ==
  {"get_polyhaven_categories", "search_polyhaven_assets",
   "download_polyhaven_asset", "set_texture"}

(* ------------------------- the modelled inputs ------------------------ *)

\* a JSON array in the place of the type: a value Python cannot hash
UnhashableType == "[]"

\* the command types the peers of the model put in a request
TypeNames ==
  BASE_HANDLERS \cup POLYHAVEN_HANDLERS \cup
  {"nonexistent", "render_scene", UnhashableType}

\* the messages of the exceptions a handler raises
HandlerErrors == {"boom"}

\* what a handler returns: a JSON value, or an object json.dumps rejects
HandlerValues == {"v", "unserializable"}

\* the outcomes of one handler invocation
HandlerOutcomes ==
  {[kind |-> "return", v |-> x] : x \in HandlerValues} \cup
  {[kind |-> "raise", v |-> e] : e \in HandlerErrors}

(* ------------------------------ exceptions ---------------------------- *)

NoExc == "none"

\* except clauses that name the socket and parse errors only
SocketAndParseErrors ==
  {"OSError", "BlockingIOError", "JSONDecodeError", "UnicodeDecodeError"}

\* the classes that a Python `except Exception` clause catches
ExceptionClasses ==
  {"Exception", "AttributeError", "IndexError", "TypeError",
   "UnicodeDecodeError", "JSONDecodeError", "OSError", "BlockingIOError"}

(* ------------------------- json.loads / decode ------------------------ *)

\* bytes.decode('utf-8'): a lead byte needs its continuation byte, and a
\* continuation byte needs its lead byte
Utf8Valid(b) ==
  \A i \in 1..Len(b) :
     /\ b[i] = "C3" => (i < Len(b) /\ b[i + 1] = "A9")
     /\ b[i] = "A9" => (i > 1 /\ b[i - 1] = "C3")

RECURSIVE StripLeft(_)
StripLeft(b) ==
  IF b # <<>> /\ Head(b) = "ws" THEN StripLeft(Tail(b)) ELSE b

RECURSIVE StripRight(_)
StripRight(b) ==
  IF b # <<>> /\ b[Len(b)] = "ws"
    THEN StripRight(SubSeq(b, 1, Len(b) - 1)) ELSE b

\* json.loads skips the whitespace around the document
Strip(b) == StripRight(StripLeft(b))

\* the characters of a JSON string
StringChars(t) == \A i \in 1..Len(t) : t[i] \in {"a", "C3", "A9"}

\* a complete JSON object: {} , or the type member, then no params member,
\* "params": {} or "params": {"name": "<string>"}, then the closing brace
IsObject(t) ==
  \/ t = <<"{", "}">>
  \/ /\ Len(t) >= 2
     /\ t[1] \in TypeNames
     /\ \/ t = <<t[1], "}">>
        \/ t = <<t[1], "P0", "}">>
        \/ /\ Len(t) >= 3
           /\ t[2] = "P<"
           /\ t[Len(t)] = ">}"
           /\ StringChars(SubSeq(t, 3, Len(t) - 1))

\* the Python value of a parsed document
NullValue == [obj |-> FALSE, type |-> None, params |-> "none"]

ObjectValue(t) ==
  [obj    |-> TRUE,
   type   |-> IF t[1] = "{" THEN None ELSE t[1],
   params |-> IF Len(t) = 2 THEN "default"
              ELSE IF t[2] = "P0" THEN "empty" ELSE "name"]

\* a decoder that takes the first document of the buffer and ignores the
\* bytes after it, as JSONDecoder.raw_decode does
LoadsFirstDocument(b) ==
  IF ~Utf8Valid(b)
    THEN [exc |-> "UnicodeDecodeError", val |-> NullValue]
    ELSE LET t == StripLeft(b)
             N == {n \in 1..Len(t) :
                     SubSeq(t, 1, n) = <<"null">> \/ IsObject(SubSeq(t, 1, n))}
         IN IF N = {} THEN [exc |-> "JSONDecodeError", val |-> NullValue]
            ELSE LET d == SubSeq(t, 1, CHOOSE n \in N : \A k \in N : n <= k)
                 IN IF d = <<"null">> THEN [exc |-> NoExc, val |-> NullValue]
                    ELSE [exc |-> NoExc, val |-> ObjectValue(d)]

\* json.loads(buffer.decode('utf-8')): the value, or the exception
Loads(b) ==
  IF ~Utf8Valid(b)
    THEN [exc |-> "UnicodeDecodeError", val |-> NullValue]
    ELSE LET t == Strip(b) IN
         IF t = <<"null">> THEN [exc |-> NoExc, val |-> NullValue]
         ELSE IF IsObject(t) THEN [exc |-> NoExc, val |-> ObjectValue(t)]
         ELSE [exc |-> "JSONDecodeError", val |-> NullValue]

(* ---------------------------- the dispatcher -------------------------- *)

Success(v) == [status |-> "success", result |-> v]

Error(m) == [status |-> "error", message |-> m]

\* the value of the response variable where no response was built
NoResponse == [status |-> "none"]

\* BlenderMCPServer.get_polyhaven_status: the flag of the scene
PolyhavenStatus(use_polyhaven) ==
  IF use_polyhaven THEN "enabled:true" ELSE "enabled:false"

\* a registry that was built once, while the flag was off
HandlersBuiltOnce(use_polyhaven) == BASE_HANDLERS

\* the registry of _execute_command_internal: the base handlers, widened by
\* the PolyHaven handlers when the flag of the scene is set
Handlers(use_polyhaven) ==
  BASE_HANDLERS \cup (IF use_polyhaven THEN POLYHAVEN_HANDLERS ELSE {})

NoOutcome == [kind |-> "none", v |-> ""]

\* a try/except around handler(**params) that answers a fixed message
CallHandlerHidesMessage(cmd_type, h) ==
  [exc |-> NoExc, msg |-> "",
   resp |-> IF h.kind = "return" THEN Success(h.v)
            ELSE Error("Command failed"),
   ran |-> cmd_type, hout |-> h]

\* the try/except around handler(**params)
CallHandler(cmd_type, h) ==
  [exc |-> NoExc, msg |-> "",
   resp |-> IF h.kind = "return" THEN Success(h.v) ELSE Error(h.v),
   ran |-> cmd_type, hout |-> h]

\* an else branch that leaves the type out of the message
UnknownCommandNoType(cmd_type) ==
  [exc |-> NoExc, msg |-> "",
   resp |-> Error("Unknown command type"),
   ran |-> None, hout |-> NoOutcome]

\* the else branch of `if handler`
UnknownCommand(cmd_type) ==
  [exc |-> NoExc, msg |-> "",
   resp |-> Error("Unknown command type: " \o cmd_type),
   ran |-> None, hout |-> NoOutcome]

\* BlenderMCPServer._execute_command_internal
ExecuteCommandInternal(command, use_polyhaven, h) ==
  LET cmd_type == command.type IN
  IF cmd_type = "get_polyhaven_status"
    THEN IF h.kind = "raise"
           THEN [exc |-> "Exception", msg |-> h.v, resp |-> NoResponse,
                 ran |-> cmd_type, hout |-> h]
           ELSE [exc |-> NoExc, msg |-> "",
                 resp |-> Success(PolyhavenStatus(use_polyhaven)),
                 ran |-> cmd_type,
                 hout |-> [kind |-> "return",
                           v |-> PolyhavenStatus(use_polyhaven)]]
  ELSE IF cmd_type = UnhashableType
    THEN [exc |-> "TypeError", msg |-> "unhashable type: 'list'",
          resp |-> NoResponse, ran |-> None, hout |-> NoOutcome]
  ELSE IF cmd_type \in Handlers(use_polyhaven)
    THEN CallHandler(cmd_type, h)
    ELSE UnknownCommand(cmd_type)

\* an execute_command without its try/except
CatchNothingInExecute(r) == r

\* the `except Exception` clause of execute_command
CatchInExecute(r) ==
  IF r.exc \in ExceptionClasses
    THEN [r EXCEPT !.exc = NoExc, !.resp = Error(r.msg)]
    ELSE r

\* an override that is left only when its body answered a success
TempOverrideLeaks(r) ==
  [ctx |-> IF r.resp.status = "success" THEN "released" ELSE "held"] @@ r

\* with bpy.context.temp_override(**override): the context is entered, the
\* body runs inside it and gives r, and the context is left when the body
\* returns or raises
TempOverride(r) == [ctx |-> "released"] @@ r

\* BlenderMCPServer.execute_command; view says whether the screen has a
\* VIEW_3D area.  ctx is "held" while the temp_override is active after the
\* call, "released" when it was entered and left, "never" when not entered
ExecuteCommand(command, use_polyhaven, view, h) ==
  IF ~command.obj
    THEN CatchInExecute([exc |-> "AttributeError",
                         msg |-> "object has no attribute 'get'",
                         resp |-> NoResponse, ran |-> None,
                         hout |-> NoOutcome, ctx |-> "never"])
  ELSE IF command.type \in CONTEXT_TYPES
    THEN IF ~view
           THEN CatchInExecute([exc |-> "IndexError",
                                msg |-> "list index out of range",
                                resp |-> NoResponse, ran |-> None,
                                hout |-> NoOutcome, ctx |-> "never"])
           ELSE CatchInExecute(
                  TempOverride(
                    ExecuteCommandInternal(command, use_polyhaven, h)))
    ELSE CatchInExecute(
           [ctx |-> "never"] @@
           ExecuteCommandInternal(command, use_polyhaven, h))

(* ------------------------------- state -------------------------------- *)

VARIABLES
  running,        \* BlenderMCPServer.running
  socket,         \* BlenderMCPServer.socket: TRUE when the listening socket is set
  client,         \* BlenderMCPServer.client: the accepted connection, 0 for None
  buffer,         \* BlenderMCPServer.buffer
  use_polyhaven,  \* bpy.context.scene.blendermcp_use_polyhaven
  conn,           \* the TCP connections, by number
  nwrites,        \* the writes the peers have made so far
  raised,         \* the connection on which a handler last raised, or 0
  last,           \* what the last operation of the server did
  sock,           \* BlenderConnection.sock: the connection, 0 for None
  cpc,            \* where the caller of send_command is: "idle" or "recv"
  chunks,         \* the chunks list of receive_full_response
  call,           \* the current or the last call of send_command
  ncalls,         \* the calls of send_command so far
  blendermcp_server,          \* bpy.types.blendermcp_server is set
  blendermcp_server_running,  \* scene.blendermcp_server_running
  blender_connection,  \* the global _blender_connection is not None
  polyhaven_enabled,   \* the global _polyhaven_enabled
  gbc,            \* the current or the last call of get_blender_connection
  tool            \* the current or the last call of a tool

\* what the operators of the panel keep
hostVars == <<blendermcp_server, blendermcp_server_running>>

\* the globals of blender_mcp_server.py and the callers of the tools
globalVars == <<blender_connection, polyhaven_enabled, gbc, tool>>

serverVars == <<running, socket, client, buffer, hostVars>>

clientVars == <<sock, cpc, chunks, call, ncalls, globalVars>>

vars ==
  <<running, socket, client, buffer, use_polyhaven, conn, nwrites, raised,
    last, sock, cpc, chunks, call, ncalls, hostVars, globalVars>>

Conns == 1..MaxConns

\* a TCP connection: st is "free" (not opened yet), "pending" (in the
\* backlog of the listening socket), "accepted", "closed" (the server closed
\* its end) or "reset" (dropped with the listening socket)
FreeConn ==
  [st |-> "free", owner |-> "peer", peerOpen |-> FALSE, c2s |-> <<>>,
   s2c |-> <<>>, got |-> <<>>, parsed |-> 0, sent |-> 0, cwrites |-> 0,
   cresp |-> 0]

\* a connection whose server end is gone (st is "closed" or "reset"): what
\* the peer wrote is dropped, what the server wrote stays readable
Dead(cn, st) ==
  IF cn.owner = "client"
    THEN [cn EXCEPT !.st = st, !.c2s = <<>>, !.got = <<>>]
    ELSE [FreeConn EXCEPT !.st = st]

\* Python values that are JSON values, each with its JSON text: None, a
\* bool, a float, the one-character str U+00E9 (json.dumps escapes what is
\* not ASCII), a nested list, a nested dict with str keys, and the dicts
\* the handlers of the model return
JsonTexts ==
  {<<"None", "null">>, <<"True", "true">>, <<"1.5", "1.5">>,
   <<"U+00E9", "\\u00e9">>, <<"[1, [None]]", "[1, [null]]">>,
   <<"{'k': [True]}", "{'k': [true]}">>, <<"{'1': None}", "{'1': null}">>,
   <<"v", "{'name': 'v'}">>, <<"{}", "{}">>,
   <<"enabled:true", "{'enabled': true}">>,
   <<"enabled:false", "{'enabled': false}">>,
   <<"categories", "{'categories': {}}">>,
   <<"material:applied", "{'status': 'success', 'material': 'a'}">>,
   <<"material:not_found",
     "{'status': 'error', 'message': 'Object not found: a'}">>,
   <<"material:cannot_accept",
     "{'status': 'error', 'message': 'Object a cannot accept materials'}">>}

\* Python values json.dumps accepts although they are no JSON values: a
\* tuple is written as an array, and a key that is an int as a string
PythonOnlyTexts ==
  {<<"(1, [None])", "[1, [null]]">>, <<"{1: None}", "{'1': null}">>}

\* json.dumps of a value: its text, or TypeError
DumpsValue(v) ==
  LET T == {p \in JsonTexts \cup PythonOnlyTexts : p[1] = v} IN
  IF T = {} THEN "TypeError" ELSE (CHOOSE p \in T : TRUE)[2]

\* json.loads of the text of a value
LoadsValue(t) ==
  LET T == {p \in JsonTexts : p[2] = t} IN
  IF T = {} THEN "JSONDecodeError" ELSE (CHOOSE p \in T : TRUE)[1]

\* json.dumps(response): the document of a Response.  A message is a str
\* and is read back as the same str
Wire(resp) ==
  IF "result" \in DOMAIN resp
    THEN [resp EXCEPT !.result = DumpsValue(@)] ELSE resp

\* json.loads of the document of a Response
Unwire(doc) ==
  IF "result" \in DOMAIN doc
    THEN [doc EXCEPT !.result = LoadsValue(@)] ELSE doc

\* the bytes of a Response on the wire, as two fragments: the client
\* decodes a Response from both fragments of the same Response only
Encode(resp) ==
  <<[part |-> 1, resp |-> Wire(resp)], [part |-> 2, resp |-> Wire(resp)]>>

\* a json.dumps that accepts every Python value
SerializesAnything(resp) == TRUE

\* json.dumps(response) raises TypeError on a value that is no JSON value
Serializable(resp) ==
  ~(resp.status = "success" /\ DumpsValue(resp.result) = "TypeError")

\* the record of one operation
Quiet(op) ==
  [op |-> op, ret |-> None, exc |-> NoExc, client |-> 0, buffer |-> <<>>,
   pyClosed |-> FALSE, accepts |-> 0, accepted |-> 0, recvs |-> 0,
   nrecv |-> 0, eof |-> FALSE, parsed |-> FALSE, cmd |-> NullValue,
   dispatched |-> 0, ran |-> None, hout |-> NoOutcome, flag |-> FALSE,
   view |-> FALSE, ctx |-> "never", resp |-> NoResponse, sends |-> 0,
   frags |-> 0, sendexc |-> NoExc, recvexc |-> NoExc, closes |-> 0,
   caught |-> "none", dirty |-> FALSE, had |-> 0, held |-> 0,
   dexc |-> NoExc, whole |-> FALSE, wholecmd |-> NullValue,
   afterRaise |-> 0, waits |-> 0]

\* the part of the record of a step that the state keeps: the fields of the
\* instance are in the variables
Kept(r) == [r EXCEPT !.client = 0, !.buffer = <<>>]

(* --------------------------- _process_server -------------------------- *)

\* socket.close() on the client socket: the first call on a socket object
\* releases the descriptor and may raise; a later call on it does nothing
Close(s, closeErr) ==
  IF s.pyClosed
    THEN [s EXCEPT !.exc = NoExc, !.closes = @ + 1]
    ELSE [s EXCEPT !.pyClosed = TRUE, !.closes = @ + 1,
                   !.exc = IF closeErr THEN "OSError" ELSE NoExc]

\* a reset that leaves the bytes of the old client in the buffer
ResetClientKeepsBuffer(s, closeErr) ==
  LET c == Close(s, closeErr) IN
  IF c.exc # NoExc THEN c ELSE [c EXCEPT !.client = 0]

\* self.client.close(); self.client = None; self.buffer = b''
ResetClient(s, closeErr) ==
  LET c == Close(s, closeErr) IN
  IF c.exc # NoExc THEN c ELSE [c EXCEPT !.client = 0, !.buffer = <<>>]

\* self.socket.setblocking(False) in start(): accept() on the listening
\* socket raises BlockingIOError where it would wait for a connection
ListenerNonBlocking == TRUE

\* an accept block without self.client.setblocking(False)
ClientLeftBlocking == FALSE

\* self.client.setblocking(False) after accept(): recv and sendall on the
\* client socket raise BlockingIOError where they would wait for the peer
ClientNonBlocking == TRUE

\* a socket call of the step finds that it cannot go on at once (would is
\* true): on a non-blocking socket it raises BlockingIOError, on a blocking
\* one it waits for the peer
Waits(would, nonblocking) == IF would /\ ~nonblocking THEN 1 ELSE 0

\* an accept block that is never entered
AcceptGuardNever(cl, listener) == FALSE

\* an accept block that forgets to test self.client
AcceptGuardAlways(cl, listener) == listener

\* the accept block: only while no client is held and the socket is set
AcceptGuard(cl, listener) == cl = 0 /\ listener

AcceptBlock(s, listener, in) ==
  IF AcceptGuard(s.client, listener)
    THEN IF in.accept = "conn"
           THEN [s EXCEPT !.client = in.conn, !.accepted = in.conn,
                          !.accepts = @ + 1]
           ELSE [s EXCEPT !.accepts = @ + 1,
                          !.waits = @ + Waits(in.accept = "BlockingIOError",
                                              ListenerNonBlocking)]
    ELSE s

\* a parse block that answers a buffer that does not parse with an error
\* Response instead of waiting for more bytes
OnIncompleteAnswers(s) ==
  IF s.exc = "JSONDecodeError"
    THEN [s EXCEPT !.exc = NoExc, !.sends = @ + 1, !.frags = 2,
                   !.resp = Error("Invalid JSON")]
    ELSE s

\* the `except json.JSONDecodeError: pass` clause of the parse block
OnIncomplete(s) ==
  IF s.exc = "JSONDecodeError" THEN [s EXCEPT !.exc = NoExc] ELSE s

\* self.client.sendall(...): the fragments written and the exception
SendAll(s, in) ==
  [s EXCEPT !.sends = @ + 1, !.frags = in.frags,
            !.sendexc = in.send, !.exc = in.send,
            !.waits = @ + Waits(in.send = "BlockingIOError",
                                ClientNonBlocking)]

\* the lines after a successful json.loads: clear the buffer, execute the
\* command, serialize the response and send it
Dispatch(s, command, flag, in) ==
  LET d == ExecuteCommand(command, flag, in.view, in.h)
      t == [s EXCEPT !.buffer = <<>>, !.parsed = TRUE, !.cmd = command,
                     !.dispatched = @ + 1, !.ran = d.ran, !.hout = d.hout,
                     !.dexc = d.exc, !.flag = flag,
                     !.view = (command.obj /\ command.type \in CONTEXT_TYPES
                               /\ in.view),
                     !.ctx = d.ctx, !.resp = d.resp, !.exc = d.exc]
  IN IF d.exc # NoExc THEN t
     ELSE IF ~Serializable(d.resp) THEN [t EXCEPT !.exc = "TypeError"]
     ELSE SendAll(t, in)

\* the `if data:` branch: append to the buffer and try to parse it
OnData(s, data, flag, in) ==
  LET b == s.buffer \o data
      t == [s EXCEPT !.buffer = b, !.nrecv = Len(data)]
      p == Loads(b)
  IN IF p.exc # NoExc
       THEN OnIncomplete([t EXCEPT !.exc = p.exc])
       ELSE Dispatch(t, p.val, flag, in)

\* except clauses that take "no data yet" for a failure of the connection
RecvHandlersDropOnBlock(s, in) ==
  IF s.exc = NoExc THEN s
  ELSE IF s.exc \in ExceptionClasses
    THEN ResetClient([s EXCEPT !.caught = "recv"], in.closeErr)
  ELSE s

\* the except clauses of the receive block: BlockingIOError is passed over,
\* any other Exception closes the client and clears the buffer
RecvHandlers(s, in) ==
  IF s.exc = NoExc THEN s
  ELSE IF s.exc = "BlockingIOError"
    THEN [s EXCEPT !.exc = NoExc, !.caught = "pass"]
  ELSE IF s.exc \in ExceptionClasses
    THEN ResetClient([s EXCEPT !.caught = "recv"], in.closeErr)
  ELSE s

\* the receive block: recv, then the data branch or the end-of-stream branch
RecvBlock(s, flag, in) ==
  LET t == [s EXCEPT !.recvs = @ + 1, !.held = s.client] IN
  RecvHandlers(
    IF in.recv = "data" THEN OnData(t, in.data, flag, in)
    ELSE IF in.recv = "eof"
      THEN ResetClient([t EXCEPT !.eof = TRUE], in.closeErr)
    ELSE [t EXCEPT !.exc = in.recv, !.recvexc = in.recv,
                   !.waits = @ + Waits(in.recv = "BlockingIOError",
                                       ClientNonBlocking)], in)

\* the `except Exception` clause around the receive block
ClientHandler(s, in) ==
  IF s.exc \in ExceptionClasses
    THEN LET t == [s EXCEPT !.caught = "client", !.exc = NoExc] IN
         IF t.client # 0
           THEN LET c == Close(t, in.closeErr) IN
                IF c.exc # NoExc THEN c
                ELSE [c EXCEPT !.client = 0, !.buffer = <<>>]
           ELSE [t EXCEPT !.buffer = <<>>]
    ELSE s

\* the `if self.client:` block
ClientBlock(s, flag, in) ==
  IF s.client # 0 THEN ClientHandler(RecvBlock(s, flag, in), in) ELSE s

\* the outermost `except Exception` clause
ServerHandler(s) ==
  IF s.exc \in ExceptionClasses
    THEN [s EXCEPT !.caught = "server", !.exc = NoExc]
    ELSE s

\* a step that does not look at running
StopNeverRequested(run) == FALSE

\* `if not self.running` at the entry of the step
StopRequested(run) == ~run

\* BlenderMCPServer._process_server, from the fields of the instance and
\* the outcomes of the calls it makes
ProcessServerStep(run, listener, cl, buf, flag, in) ==
  LET s0 == [Quiet("_process_server") EXCEPT
               !.client = cl, !.buffer = buf, !.dirty = (buf # <<>>),
               !.had = cl]
  IN IF StopRequested(run) THEN [s0 EXCEPT !.ret = None]
     ELSE LET s == ServerHandler(ClientBlock(AcceptBlock(s0, listener, in),
                                             flag, in))
          IN [s EXCEPT !.ret = IF s.exc = NoExc THEN DELAY ELSE "raised"]

(* ------------------------------ the network --------------------------- *)

Pending == {c \in Conns : conn[c].st = "pending"}

Free == {c \in Conns : conn[c].st = "free"}

Min(S) == CHOOSE x \in S : \A y \in S : x <= y

\* the non-empty prefixes of a byte sequence: what one recv may return
Prefixes(b) == {SubSeq(b, 1, n) : n \in 1..Len(b)}

\* what accept() can do: return the oldest pending connection, find none,
\* or fail
AcceptOutcomes ==
  (IF Pending # {} THEN {[accept |-> "conn", conn |-> Min(Pending)]}
                   ELSE {[accept |-> "BlockingIOError", conn |-> 0]})
  \cup {[accept |-> "OSError", conn |-> 0]}

\* what recv(8192) can do on connection c: return bytes that arrived, find
\* none, see the end of the stream, or fail
RecvOutcomes(c) ==
  (IF c = 0 THEN {}
   ELSE IF conn[c].c2s # <<>>
     THEN {[recv |-> "data", data |-> d] : d \in Prefixes(conn[c].c2s)}
   ELSE IF conn[c].peerOpen
     THEN {[recv |-> "BlockingIOError", data |-> <<>>]}
     ELSE {[recv |-> "eof", data |-> <<>>]})
  \cup {[recv |-> "OSError", data |-> <<>>]}

\* what sendall() can do: write the whole Response, or raise after it
\* wrote none or a part of it
SendOutcomes ==
  {[send |-> NoExc, frags |-> 2], [send |-> "BlockingIOError", frags |-> 0],
   [send |-> "BlockingIOError", frags |-> 1], [send |-> "OSError", frags |-> 0]}

\* a step whose recv leaves the bytes it returned in the stream, as a recv
\* with MSG_PEEK does
NetAfterPeeks(r) ==
  LET c == r.client_at_recv IN
  [d \in Conns |->
     IF d # c THEN conn[d]
     ELSE LET n == [conn[d] EXCEPT
                      !.st = "accepted",
                      !.got = IF r.parsed THEN <<>> ELSE r.got,
                      !.s2c = IF conn[d].owner = "client"
                                THEN @ \o SubSeq(Encode(r.resp), 1, r.frags)
                                ELSE @,
                      !.parsed = @ + (IF r.parsed THEN 1 ELSE 0),
                      !.sent = @ + (IF r.sends > 0 /\ r.sendexc = NoExc
                                      THEN 1 ELSE 0)]
          IN IF r.pyClosed THEN Dead(n, "closed") ELSE n]

\* the connections after a step with record r
NetAfter(r) ==
  LET c == r.client_at_recv IN
  [d \in Conns |->
     IF d # c THEN conn[d]
     ELSE LET n == [conn[d] EXCEPT
                      !.st = "accepted",
                      !.c2s = SubSeq(@, r.nrecv + 1, Len(@)),
                      !.got = IF r.parsed THEN <<>> ELSE r.got,
                      !.s2c = IF conn[d].owner = "client"
                                THEN @ \o SubSeq(Encode(r.resp), 1, r.frags)
                                ELSE @,
                      !.parsed = @ + (IF r.parsed THEN 1 ELSE 0),
                      !.sent = @ + (IF r.sends > 0 /\ r.sendexc = NoExc
                                      THEN 1 ELSE 0)]
          IN IF r.pyClosed THEN Dead(n, "closed") ELSE n]

(* ------------------------------- actions ------------------------------ *)

\* the inputs of a step that reaches no dispatch, no send and no close
NoSend == [send |-> NoExc, frags |-> 0]

DefaultOutcome == [kind |-> "return", v |-> "v"]

\* the instance, the connections and the record after a step with inputs
\* in; held is the client the step reads from, or 0
StepWith(in, held) ==
  LET r == ProcessServerStep(running, socket, client, buffer,
                             use_polyhaven, in)
      got == IF held = 0 THEN <<>> ELSE conn[held].got \o in.data
  IN /\ client' = r.client
     /\ buffer' = r.buffer
     /\ conn' = NetAfter([client_at_recv |-> held, got |-> got] @@ r)
     /\ raised' = IF r.hout.kind = "raise" THEN held ELSE raised
     /\ last' = [Kept(r) EXCEPT
                   !.whole = (Loads(got).exc = NoExc),
                   !.wholecmd = Loads(got).val,
                   !.afterRaise = raised]
     /\ UNCHANGED <<running, socket, use_polyhaven, nwrites, hostVars,
                    clientVars>>

\* one invocation of _process_server by the timer
ProcessServer ==
  \E a \in (IF running /\ AcceptGuard(client, socket)
              THEN AcceptOutcomes
              ELSE {[accept |-> "BlockingIOError", conn |-> 0]}) :
    LET held == IF a.accept = "conn" THEN a.conn
                ELSE IF running THEN client ELSE 0
    IN \E rc \in (IF held = 0 THEN {[recv |-> "BlockingIOError", data |-> <<>>]}
                  ELSE RecvOutcomes(held)) :
         LET p == Loads(buffer \o rc.data)
             parses == rc.recv = "data" /\ p.exc = NoExc
             calls == parses /\ p.val.obj
                      /\ p.val.type \in Handlers(use_polyhaven)
         IN \E se \in (IF parses THEN SendOutcomes ELSE {NoSend}),
               view \in (IF calls /\ p.val.type \in CONTEXT_TYPES
                           THEN BOOLEAN ELSE {TRUE}),
               h \in (IF calls THEN HandlerOutcomes ELSE {DefaultOutcome}),
               closeErr \in (IF held # 0 /\ rc.recv # "BlockingIOError"
                                  /\ (rc.recv = "data" =>
                                        p.exc # "JSONDecodeError")
                               THEN BOOLEAN ELSE {FALSE}) :
              StepWith([accept |-> a.accept, conn |-> a.conn,
                        recv |-> rc.recv, data |-> rc.data,
                        send |-> se.send, frags |-> se.frags,
                        view |-> view, h |-> h, closeErr |-> closeErr],
                       held)

\* a stop() that leaves the client socket in place
StopOpKeepsClient(s) == [s EXCEPT !.running = FALSE, !.socket = FALSE]

\* BlenderMCPServer.stop
StopOp(s) ==
  [s EXCEPT !.running = FALSE, !.socket = FALSE, !.client = 0]

\* BlenderMCPServer.start: bind and listen, or stop() when that fails
StartOp(s, bindOk) ==
  IF bindOk
    THEN [s EXCEPT !.running = TRUE, !.socket = TRUE]
    ELSE StopOp([s EXCEPT !.running = TRUE, !.socket = TRUE])

Self == [running |-> running, socket |-> socket, client |-> client,
         buffer |-> buffer]

\* the connections after the listening socket and the client socket of the
\* instance were replaced or closed
NetAfterSelf(s, dropBacklog) ==
  [d \in Conns |->
     IF d = client /\ s.client = 0 THEN Dead(conn[d], "closed")
     ELSE IF conn[d].st = "pending" /\ dropBacklog
       THEN Dead(conn[d], "reset")
     ELSE conn[d]]

Start ==
  \E bindOk \in BOOLEAN :
    LET s == StartOp(Self, bindOk) IN
    /\ running' = s.running
    /\ socket' = s.socket
    /\ client' = s.client
    /\ buffer' = s.buffer
    /\ conn' = NetAfterSelf(s, TRUE)
    /\ last' = Quiet("start")
    /\ UNCHANGED <<use_polyhaven, nwrites, raised, hostVars, clientVars>>

Stop ==
  LET s == StopOp(Self) IN
  /\ running' = s.running
  /\ socket' = s.socket
  /\ client' = s.client
  /\ buffer' = s.buffer
  /\ conn' = NetAfterSelf(s, TRUE)
  /\ last' = Quiet("stop")
  /\ UNCHANGED <<use_polyhaven, nwrites, raised, hostVars, clientVars>>

\* the user ticks or clears "Use assets from Poly Haven"
SetPolyhaven ==
  /\ use_polyhaven' = ~use_polyhaven
  /\ UNCHANGED <<serverVars, conn, nwrites, raised, last, clientVars>>

\* BlenderConnection after construction, before any call
NoCall ==
  [type |-> None, outcome |-> "none", value |-> "", error |-> "",
   connects |-> 0, writes |-> 0, conn |-> 0, held |-> 0, stage |-> "none",
   exc |-> NoExc, recv |-> "none", had |-> FALSE, response |-> NoResponse,
   after |-> "none", elapsed |-> 0]

\* get_blender_connection before any call of it
NoGet ==
  [pc |-> "idle", outcome |-> "none", had |-> FALSE, probed |-> FALSE,
   discarded |-> FALSE, created |-> FALSE, closed |-> 0, error |-> ""]

\* the tools before any call of them
NoTool ==
  [pc |-> "idle", name |-> None, answer |-> "", checked |-> FALSE,
   cached |-> FALSE, host |-> FALSE, sent |-> FALSE]

\* the module blender_mcp_server.py after import: no connection object,
\* _polyhaven_enabled = False
ClientInit ==
  /\ sock = 0
  /\ cpc = "idle"
  /\ chunks = <<>>
  /\ call = NoCall
  /\ ncalls = 0
  /\ blender_connection = FALSE
  /\ polyhaven_enabled = FALSE
  /\ gbc = NoGet
  /\ tool = NoTool

\* the add-on after register(): no server instance, the flag of the scene
\* at its default
HostInit ==
  /\ blendermcp_server = FALSE
  /\ blendermcp_server_running = FALSE

\* the documents the peers of the model write
Msgs ==
  {<<"create_object", "P<", "C3", "A9", ">}">>,
   <<"get_polyhaven_status", "}">>}

\* a peer connects: the connection waits in the backlog
PeerConnect ==
  /\ socket
  /\ Free # {}
  /\ Cardinality(Pending) <= BACKLOG
  /\ conn' = [conn EXCEPT ![Min(Free)] =
                [FreeConn EXCEPT !.st = "pending", !.peerOpen = TRUE]]
  /\ UNCHANGED <<serverVars, use_polyhaven, nwrites, raised, last,
                 clientVars>>

\* a peer writes one of the documents M on its connection
PeerWriteOf(M) ==
  \E c \in Conns, m \in M :
    /\ conn[c].st \in {"pending", "accepted"}
    /\ conn[c].peerOpen
    /\ nwrites < MaxWrites
    /\ conn' = [conn EXCEPT ![c].c2s = @ \o m]
    /\ nwrites' = nwrites + 1
    /\ UNCHANGED <<serverVars, use_polyhaven, raised, last, clientVars>>

PeerWrite == PeerWriteOf(Msgs)

\* a peer closes its end
PeerClose ==
  \E c \in Conns :
    /\ conn[c].st \in {"pending", "accepted"}
    /\ conn[c].peerOpen
    /\ conn' = [conn EXCEPT ![c].peerOpen = FALSE]
    /\ UNCHANGED <<serverVars, use_polyhaven, nwrites, raised, last,
                 clientVars>>

Init ==
  /\ running = FALSE
  /\ socket = FALSE
  /\ client = 0
  /\ buffer = <<>>
  /\ use_polyhaven = FALSE
  /\ conn = [c \in Conns |-> FreeConn]
  /\ nwrites = 0
  /\ raised = 0
  /\ last = Quiet("__init__")
  /\ ClientInit
  /\ HostInit

Next ==
  \/ ProcessServer
  \/ Start
  \/ Stop
  \/ SetPolyhaven
  \/ PeerConnect
  \/ PeerWrite
  \/ PeerClose

Spec == Init /\ [][Next]_vars

TypeOK ==
  /\ running \in BOOLEAN
  /\ socket \in BOOLEAN
  /\ client \in 0..MaxConns
  /\ use_polyhaven \in BOOLEAN

(* ------------------------- BlenderConnection -------------------------- *)

\* the command types the caller of the model sends
ClientTypes == {"get_scene_info", "get_polyhaven_status"}

\* the command types the tools of the model send, with their params
ToolTypes == {"get_polyhaven_categories", "set_material"}

\* json.dumps({"type": command_type, "params": params or {}}).encode():
\* the tools of the model pass one param, a string; the other callers none
Request(command_type) ==
  IF command_type \in ToolTypes
    THEN <<command_type, "P<", "a", ">}">>
    ELSE <<command_type, "P0", "}">>

\* json.loads of the joined chunks succeeds on the two fragments of one
\* Response and on nothing else
Decodes(ch) ==
  /\ Len(ch) = 2
  /\ ch[1].part = 1
  /\ ch[2].part = 2
  /\ ch[1].resp = ch[2].resp

\* a client that hands on the document as it was received
DecodedRaw(ch) == ch[1].resp

\* json.loads(response_data.decode('utf-8'))
Decoded(ch) == Unwire(ch[1].resp)

\* a connect() that opens a transport whatever the manager holds
ConnectAlwaysOpens(sockv, ok, c) ==
  IF ok /\ c # 0 THEN [ret |-> TRUE, sock |-> c, opened |-> c]
  ELSE [ret |-> sockv # 0, sock |-> sockv, opened |-> 0]

\* BlenderConnection.connect: ok says whether the transport can be opened,
\* c is the connection it opens
Connect(sockv, ok, c) ==
  IF sockv # 0 THEN [ret |-> TRUE, sock |-> sockv, opened |-> 0]
  ELSE IF ok THEN [ret |-> TRUE, sock |-> c, opened |-> c]
  ELSE [ret |-> FALSE, sock |-> 0, opened |-> 0]

\* an end of receive_full_response that reports a closed connection when
\* nothing was received
ReceiveFinalAsClosed(ch) ==
  IF ch # <<>>
    THEN IF Decodes(ch)
           THEN [state |-> "return", chunks |-> ch, exc |-> NoExc, msg |-> ""]
           ELSE [state |-> "raise", chunks |-> ch, exc |-> "Exception",
                 msg |-> "Incomplete JSON response received"]
    ELSE [state |-> "raise", chunks |-> ch, exc |-> "Exception",
          msg |-> "Connection closed before receiving any data"]

\* the end of receive_full_response, after the loop was left
ReceiveFinal(ch) ==
  IF ch # <<>>
    THEN IF Decodes(ch)
           THEN [state |-> "return", chunks |-> ch, exc |-> NoExc, msg |-> ""]
           ELSE [state |-> "raise", chunks |-> ch, exc |-> "Exception",
                 msg |-> "Incomplete JSON response received"]
    ELSE [state |-> "raise", chunks |-> ch, exc |-> "Exception",
          msg |-> "No data received"]

\* a loop that leaves on every empty chunk, without the test of chunks
ReceiveChunkBreaksOnEmpty(ch, rc) ==
  IF rc.recv = "data"
    THEN LET all == ch \o rc.data IN
         IF Decodes(all)
           THEN [state |-> "return", chunks |-> all, exc |-> NoExc,
                 msg |-> ""]
           ELSE [state |-> "continue", chunks |-> all, exc |-> NoExc,
                 msg |-> ""]
  ELSE IF rc.recv \in {"eof", "timeout"} THEN ReceiveFinal(ch)
  ELSE [state |-> "raise", chunks |-> ch, exc |-> rc.recv,
        msg |-> "Connection reset by peer"]

\* one iteration of the loop of receive_full_response
ReceiveChunk(ch, rc) ==
  IF rc.recv = "data"
    THEN LET all == ch \o rc.data IN
         IF Decodes(all)
           THEN [state |-> "return", chunks |-> all, exc |-> NoExc,
                 msg |-> ""]
           ELSE [state |-> "continue", chunks |-> all, exc |-> NoExc,
                 msg |-> ""]
  ELSE IF rc.recv = "eof"
    THEN IF ch = <<>>
           THEN [state |-> "raise", chunks |-> ch, exc |-> "Exception",
                 msg |-> "Connection closed before receiving any data"]
           ELSE ReceiveFinal(ch)
  ELSE IF rc.recv = "timeout" THEN ReceiveFinal(ch)
  ELSE [state |-> "raise", chunks |-> ch, exc |-> rc.recv,
        msg |-> IF rc.recv = "ConnectionError"
                  THEN "Connection reset by peer"
                  ELSE "Bad file descriptor"]

\* dict.get(key, default)
Get(d, k, default) == IF k \in DOMAIN d THEN d[k] ELSE default

\* a decoded document that is no JSON object (null, an array, a number)
NonObject == [nonobject |-> "null"]

\* an Interpret that takes every Response as a success
InterpretIgnoresStatus(response) ==
  [exc |-> NoExc, msg |-> "", value |-> Get(response, "result", "{}")]

\* the lines of send_command after the Response was decoded
Interpret(response) ==
  IF "nonobject" \in DOMAIN response
    THEN [exc |-> "AttributeError", msg |-> "object has no attribute 'get'",
          value |-> ""]
  ELSE IF Get(response, "status", None) = "error"
    THEN [exc |-> "Exception",
          msg |-> Get(response, "message", "Unknown error from Blender"),
          value |-> ""]
  ELSE [exc |-> NoExc, msg |-> "", value |-> Get(response, "result", "{}")]

\* an except clause that keeps the socket after a failure
KeepSock(sockv) == sockv

\* self.sock = None in the except clauses of send_command
Invalidate(sockv) == 0

\* except clauses that return an empty result instead of raising
SendCommandHandlersSwallow(exc, msg, sockv) ==
  [sock |-> Invalidate(sockv), error |-> ""]

\* except clauses of which the last one, `except Exception`, keeps the
\* socket for the next call
SendCommandHandlersKeepOnError(exc, msg, sockv) ==
  IF exc = "timeout"
    THEN [sock |-> Invalidate(sockv),
          error |-> "Timeout waiting for Blender response - try simplifying your request"]
  ELSE IF exc = "ConnectionError"
    THEN [sock |-> Invalidate(sockv),
          error |-> "Connection to Blender lost: " \o msg]
  ELSE [sock |-> sockv, error |-> "Communication error with Blender: " \o msg]

\* the except clauses of send_command: the socket afterwards and the error
\* the caller gets
SendCommandHandlers(exc, msg, sockv) ==
  IF exc = "timeout"
    THEN [sock |-> Invalidate(sockv),
          error |-> "Timeout waiting for Blender response - try simplifying your request"]
  ELSE IF exc = "ConnectionError"
    THEN [sock |-> Invalidate(sockv),
          error |-> "Connection to Blender lost: " \o msg]
  ELSE IF exc = "JSONDecodeError"
    THEN [sock |-> sockv, error |-> "Invalid response from Blender: " \o msg]
  ELSE [sock |-> Invalidate(sockv),
        error |-> "Communication error with Blender: " \o msg]

\* an error Response that is reported from outside the try block: no except
\* clause runs and the socket stays
RaisedOutsideTry(i, sockv) ==
  [sock |-> sockv, error |-> "Communication error with Blender: " \o i.msg]

\* the exception raised on the decoded Response is raised inside the try
\* block of send_command and passes through its except clauses
RaisedInTry(i, sockv) == SendCommandHandlers(i.exc, i.msg, sockv)

\* connect() succeeds when the server listens and its backlog has room
ConnectOutcomes ==
  IF socket /\ Cardinality(Pending) <= BACKLOG THEN {TRUE} ELSE {FALSE}

\* sendall() of the request on connection c: the bytes are written while
\* the server end is there, and may be refused after it has gone
ClientSendOutcomes(c) ==
  IF conn[c].st \in {"pending", "accepted"} THEN {NoExc}
  ELSE {NoExc, "ConnectionError"}

\* recv() on connection c: fragments that arrived, the end of the stream
\* or a reset after the server end has gone, or the timeout
ClientRecvOutcomes(c) ==
  IF conn[c].s2c # <<>>
    THEN {[recv |-> "data", data |-> d] : d \in Prefixes(conn[c].s2c)}
  ELSE IF conn[c].st = "closed"
    THEN {[recv |-> "eof", data |-> <<>>],
          [recv |-> "ConnectionError", data |-> <<>>]}
  ELSE IF conn[c].st = "reset"
    THEN {[recv |-> "ConnectionError", data |-> <<>>]}
  ELSE {[recv |-> "timeout", data |-> <<>>]}

\* the messages of the exceptions of the socket calls
SocketMessage(exc) ==
  IF exc = "ConnectionError" THEN "Broken pipe"
  ELSE IF exc = "timeout" THEN "timed out"
  ELSE "Bad file descriptor"

\* a send_command that goes on after a failed connect()
NotConnectedIgnored(c0) == [c0 EXCEPT !.outcome = "return", !.value = "{}"]

\* raise ConnectionError("Not connected to Blender"), before the try
NotConnected(c0) ==
  [c0 EXCEPT !.outcome = "raise", !.error = "Not connected to Blender",
             !.exc = "ConnectionError"]

\* a sendall that is repeated once
WrittenTwice(c0) == [c0 EXCEPT !.writes = @ + 2, !.stage = "recv"]

\* self.sock.sendall(json.dumps(command).encode('utf-8')) went through
Written(c0) == [c0 EXCEPT !.writes = @ + 1, !.stage = "recv"]

\* how the operation before this one ended: "transport" when it was a call
\* of send_command that failed on an exception of sendall or recv
Failure(c) ==
  IF /\ c.type \in ClientTypes
     /\ c.outcome = "raise"
     /\ c.stage \in {"send", "recv"}
     /\ c.exc \in {"ConnectionError", "OSError"}
    THEN "transport" ELSE "none"

\* send_command with type t up to the call of receive_full_response:
\* connect when there is no socket, then write the request; ok is what
\* connect() finds, se what sendall() does
SendCommandStep(t, ok, se) ==
  LET k == Connect(sock, ok, IF Free # {} THEN Min(Free) ELSE 0)
      c0 == [NoCall EXCEPT !.type = t, !.held = sock,
                           !.after = Failure(call),
                           !.connects = IF sock = 0 THEN 1 ELSE 0,
                           !.conn = k.sock,
                           !.stage = IF k.ret THEN "send" ELSE "connect"]
      net == IF k.opened = 0 THEN conn
             ELSE [conn EXCEPT ![k.opened] =
                     [FreeConn EXCEPT !.st = "pending",
                                      !.owner = "client",
                                      !.peerOpen = TRUE]]
  IN /\ ncalls' = ncalls + 1
     /\ IF ~k.ret
          THEN /\ sock' = k.sock
               /\ call' = NotConnected(c0)
               /\ UNCHANGED <<cpc, chunks, conn>>
          ELSE IF se = NoExc
            THEN /\ sock' = k.sock
                 /\ cpc' = "recv"
                 /\ chunks' = <<>>
                 /\ call' = Written(c0)
                 /\ conn' =
                      [net EXCEPT
                         ![k.sock].c2s =
                            IF net[k.sock].st \in {"pending", "accepted"}
                              THEN @ \o Request(t) ELSE @,
                         ![k.sock].cwrites = @ + 1]
            ELSE LET x == SendCommandHandlers(se, SocketMessage(se), k.sock)
                 IN /\ sock' = x.sock
                    /\ call' = [c0 EXCEPT !.outcome = "raise",
                                          !.error = x.error, !.exc = se]
                    /\ conn' = net
                    /\ UNCHANGED <<cpc, chunks>>
     /\ UNCHANGED <<serverVars, use_polyhaven, nwrites, raised, last>>

\* a call of send_command by the caller, over the connection to the server
SendCommand ==
  /\ cpc = "idle"
  /\ ncalls < MaxCalls
  /\ sock = 0 => Free # {}
  /\ \E t \in ClientTypes, ok \in ConnectOutcomes,
        se \in {NoExc, "ConnectionError"} :
       /\ se = NoExc \/ (sock # 0 /\ se \in ClientSendOutcomes(sock))
       /\ SendCommandStep(t, ok, se)
  /\ UNCHANGED globalVars

\* the seconds the recv with outcome rc blocked: the whole timeout when it
\* timed out, else the time the peer let pass, where that is followed
Took(rc) ==
  IF rc.recv = "timeout" THEN TIMEOUT
  ELSE IF "gap" \in DOMAIN rc THEN rc.gap ELSE 0

\* one recv of receive_full_response with outcome rc, and the rest of
\* send_command when the loop ends
ClientRecvStep(rc) ==
  LET r == ReceiveChunk(chunks, rc)
      net == [conn EXCEPT ![sock].s2c = SubSeq(@, Len(rc.data) + 1, Len(@))]
      c1 == [call EXCEPT !.recv = rc.recv, !.had = (r.chunks # <<>>),
                         !.elapsed = @ + Took(rc)]
  IN /\ IF r.state = "continue"
          THEN /\ chunks' = r.chunks
               /\ conn' = net
               /\ call' = c1
               /\ UNCHANGED <<sock, cpc>>
        ELSE IF r.state = "return"
          THEN LET i == Interpret(Decoded(r.chunks))
                   x == RaisedInTry(i, sock)
                   c2 == [c1 EXCEPT !.stage = "response",
                                    !.response = Decoded(r.chunks),
                                    !.exc = i.exc]
               IN /\ chunks' = <<>>
                  /\ cpc' = "idle"
                  /\ conn' = [net EXCEPT ![sock].cresp = @ + 1]
                  /\ IF i.exc = NoExc
                       THEN /\ call' = [c2 EXCEPT !.outcome = "return",
                                                  !.value = i.value]
                            /\ UNCHANGED sock
                       ELSE /\ call' = [c2 EXCEPT !.outcome = "raise",
                                                  !.error = x.error]
                            /\ sock' = x.sock
        ELSE LET x == SendCommandHandlers(r.exc, r.msg, sock) IN
             /\ chunks' = <<>>
             /\ cpc' = "idle"
             /\ conn' = net
             /\ call' = [c1 EXCEPT !.outcome = "raise", !.error = x.error,
                                   !.exc = r.exc]
             /\ sock' = x.sock
     /\ UNCHANGED <<serverVars, use_polyhaven, nwrites, raised, last, ncalls,
                    globalVars>>

\* the receive loop of a call, over the connection to the server
ClientRecv ==
  /\ cpc = "recv"
  /\ \E rc \in ClientRecvOutcomes(sock) : ClientRecvStep(rc)

\* the socket object that self.sock = None dropped is closed when it is
\* collected
Collect ==
  \E c \in Conns :
    /\ conn[c].owner = "client"
    /\ conn[c].peerOpen
    /\ c # sock
    /\ conn' = [conn EXCEPT ![c].peerOpen = FALSE]
    /\ UNCHANGED <<serverVars, use_polyhaven, nwrites, raised, last,
                   clientVars>>

ClientNext ==
  \/ ProcessServer
  \/ Start
  \/ Stop
  \/ SendCommand
  \/ ClientRecv
  \/ Collect

SpecClient == Init /\ [][ClientNext]_vars

(* -------------- the call after a failed call, and the server ---------- *)

\* the call in progress, or the last one, follows a call that failed on a
\* transport error
Reconnecting == call.after = "transport"

\* a step of a server that is reachable: it is running, accept takes the
\* waiting connection, recv and sendall do not fail, close does not fail,
\* and the handler does h
GoodStepWith(h) ==
  /\ running
  /\ LET a == IF AcceptGuard(client, socket) /\ Pending # {}
                THEN [accept |-> "conn", conn |-> Min(Pending)]
                ELSE [accept |-> "BlockingIOError", conn |-> 0]
         held == IF a.accept = "conn" THEN a.conn ELSE client
     IN \E rc \in (IF held = 0
                     THEN {[recv |-> "BlockingIOError", data |-> <<>>]}
                     ELSE RecvOutcomes(held) \
                            {[recv |-> "OSError", data |-> <<>>]}) :
          StepWith([accept |-> a.accept, conn |-> a.conn,
                    recv |-> rc.recv, data |-> rc.data,
                    send |-> NoExc,
                    frags |-> IF rc.recv = "data"
                                 /\ Loads(buffer \o rc.data).exc = NoExc
                                THEN 2 ELSE 0,
                    view |-> TRUE, h |-> h,
                    closeErr |-> FALSE],
                   held)

\* such a step in which the handler returns a JSON value
GoodStep == GoodStepWith(DefaultOutcome)

\* a step of the server would find something to do: a connection waits
\* while no client is held, or the client it holds has sent bytes or has
\* closed
HasWork ==
  /\ running
  /\ \/ AcceptGuard(client, socket) /\ Pending # {}
     \/ client # 0 /\ (conn[client].c2s # <<>> \/ ~conn[client].peerOpen)

\* the server has something to do for the call
ServerHasWork == Reconnecting /\ HasWork

\* a recv of the client: the 15 seconds of its timeout pass only while
\* the server, whose timer runs every 0.1 seconds, has nothing to do
GoodRecv == ClientRecv /\ (call'.recv = "timeout" => ~ServerHasWork)

\* the caller, the server and the user until a call fails on a transport
\* error and the next call has written its Request; from then on the server
\* stays up and runs its steps
ReconnectNext ==
  \/ ~Reconnecting /\ ClientNext
  \/ Reconnecting /\ GoodStep
  \/ Reconnecting /\ GoodRecv
  \/ Reconnecting /\ Collect

\* the timer of the host runs the step again and again: the server does
\* not have work forever without a step being run; and the blocked recv of
\* the client returns
SpecReconnect ==
  /\ Init
  /\ [][ReconnectNext]_vars
  /\ ([]<>(~ServerHasWork) \/ []<><<Reconnecting /\ GoodStep>>_vars)
  /\ WF_vars(Reconnecting /\ GoodRecv)

(* ------------- a call, the dispatch and the value returned ------------ *)

\* what a handler may return: null, a boolean, a number, a string, an
\* array and an object, the values only Python serializes, and an object
\* json.dumps rejects
RoundTripValues ==
  {"None", "True", "1.5", "U+00E9", "[1, [None]]", "{'k': [True]}"} \cup
  {p[1] : p \in PythonOnlyTexts} \cup {"unserializable"}

RoundTripOutcomes ==
  {[kind |-> "return", v |-> x] : x \in RoundTripValues} \cup
  {[kind |-> "raise", v |-> e] : e \in HandlerErrors}

\* a step of the server that finds something to do, with a handler that
\* returns any of the values or raises
RoundTripStep == HasWork /\ \E h \in RoundTripOutcomes : GoodStepWith(h)

\* a call of send_command("get_scene_info") over the connection to the
\* server
RoundTripCall ==
  /\ cpc = "idle"
  /\ ncalls < MaxCalls
  /\ sock = 0 => Free # {}
  /\ \E ok \in ConnectOutcomes :
       SendCommandStep("get_scene_info", ok, NoExc)
  /\ UNCHANGED globalVars

RoundTripNext ==
  \/ Start
  \/ RoundTripCall
  \/ RoundTripStep
  \/ ClientRecv
  \/ Collect

SpecRoundTrip == Init /\ [][RoundTripNext]_vars

(* ------------------ the client and an arbitrary peer ------------------ *)

\* a Response object whose status is neither "success" nor "error"
InvalidStatus == [status |-> "failed", message |-> "boom"]

\* the documents a peer may answer with
ForeignResponses == {Success("v"), Error("boom"), InvalidStatus, NonObject}

\* the bytes a peer may write at once: one half of a document
Fragments ==
  {[part |-> p, resp |-> Wire(r)] : p \in {1, 2}, r \in ForeignResponses}

\* a call of connect() by the owner of the manager
CallConnect ==
  /\ cpc = "idle"
  /\ \E ok \in (IF Free # {} THEN BOOLEAN ELSE {FALSE}) :
       LET k == Connect(sock, ok, IF Free # {} THEN Min(Free) ELSE 0) IN
       /\ sock' = k.sock
       /\ call' = [NoCall EXCEPT
                     !.type = "connect()", !.held = sock, !.conn = k.sock,
                     !.connects = IF k.opened # 0 \/ ~k.ret THEN 1 ELSE 0,
                     !.stage = "connect", !.outcome = "return",
                     !.value = IF k.ret THEN "True" ELSE "False"]
       /\ conn' = IF k.opened = 0 THEN conn
                  ELSE [conn EXCEPT ![k.opened] =
                          [FreeConn EXCEPT !.st = "pending",
                                           !.owner = "client",
                                           !.peerOpen = TRUE]]
  /\ UNCHANGED <<serverVars, use_polyhaven, nwrites, raised, last, cpc,
                 chunks, ncalls, globalVars>>

\* a call of send_command("get_scene_info") over a transport that may fail
\* in every way: the timeout of sendall is the one an earlier call has set
\* on the socket
ForeignSendCommand ==
  /\ cpc = "idle"
  /\ ncalls < MaxCalls
  /\ \E ok \in (IF Free # {} THEN BOOLEAN ELSE {FALSE}),
        se \in {NoExc, "ConnectionError", "OSError", "timeout"} :
       /\ se = "timeout" => sock # 0
       /\ SendCommandStep("get_scene_info", ok, se)
  /\ UNCHANGED globalVars

\* the receive loop of a call over such a transport
TransportRecv ==
  /\ cpc = "recv"
  /\ \E rc \in ClientRecvOutcomes(sock) \cup
               {[recv |-> "OSError", data |-> <<>>]} :
       ClientRecvStep(rc)

\* the fragments the peer may write next on connection c: the first half of
\* a document, or the second half of the document it has begun
NextFragments(c) ==
  LET w == chunks \o conn[c].s2c IN
  {f \in Fragments :
     \/ f.part = 1
     \/ w # <<>> /\ w[Len(w)] = [part |-> 1, resp |-> f.resp]}

\* the peer writes a fragment on the connection the manager holds
ForeignWrite ==
  /\ sock # 0
  /\ conn[sock].st = "pending"
  /\ nwrites < MaxWrites
  /\ nwrites' = nwrites + 1
  /\ \E f \in NextFragments(sock) :
       conn' = [conn EXCEPT ![sock].s2c = @ \o <<f>>]
  /\ UNCHANGED <<serverVars, use_polyhaven, raised, last, clientVars>>

\* the peer closes the connection the manager holds, or resets it
ForeignClose ==
  /\ sock # 0
  /\ conn[sock].st = "pending"
  /\ \E st \in {"closed", "reset"} :
       conn' = [conn EXCEPT ![sock] = Dead(@, st)]
  /\ UNCHANGED <<serverVars, use_polyhaven, nwrites, raised, last,
                 clientVars>>

TransportNext ==
  \/ ForeignSendCommand
  \/ CallConnect
  \/ TransportRecv
  \/ ForeignWrite
  \/ ForeignClose

SpecTransport == Init /\ [][TransportNext]_vars

(* ------------------- the client and a peer that paces ----------------- *)

\* the seconds a peer lets pass before a recv of the client returns: none,
\* or one second less than the timeout of the socket
Gaps == {0, TIMEOUT - 1}

\* a recv of the receive loop that returns after the peer's gap, or times
\* out
PacedRecv ==
  /\ cpc = "recv"
  /\ \E rc \in ClientRecvOutcomes(sock) \cup
               {[recv |-> "OSError", data |-> <<>>]},
        g \in Gaps :
       /\ rc.recv = "timeout" => g = 0
       /\ ClientRecvStep([gap |-> g] @@ rc)

PacingNext ==
  \/ ForeignSendCommand
  \/ PacedRecv
  \/ ForeignWrite
  \/ ForeignClose

SpecPacing == Init /\ [][PacingNext]_vars

(* ------------------------ the dispatcher alone ------------------------ *)

\* the values json.loads hands to execute_command
Commands ==
  {NullValue} \cup
  {[obj |-> TRUE, type |-> t, params |-> p] :
     t \in TypeNames \cup {None}, p \in {"default", "empty", "name"}}

DispatchInit ==
  /\ running = FALSE
  /\ socket = FALSE
  /\ client = 0
  /\ buffer = <<>>
  /\ use_polyhaven \in BOOLEAN
  /\ conn = [c \in Conns |-> FreeConn]
  /\ nwrites = 0
  /\ raised = 0
  /\ ClientInit
  /\ HostInit
  /\ \E c \in Commands : last = [Quiet("command") EXCEPT !.cmd = c]

\* one call of execute_command on the command
ExecuteCall ==
  \E view \in BOOLEAN, h \in HandlerOutcomes :
    LET d == ExecuteCommand(last.cmd, use_polyhaven, view, h) IN
    /\ last' = [Quiet("execute_command") EXCEPT
                  !.cmd = last.cmd, !.dispatched = 1, !.ran = d.ran,
                  !.hout = d.hout, !.dexc = d.exc, !.exc = d.exc,
                  !.flag = use_polyhaven,
                  !.view = (last.cmd.obj /\ last.cmd.type \in CONTEXT_TYPES
                            /\ view),
                  !.ctx = d.ctx, !.resp = d.resp]
    /\ UNCHANGED <<serverVars, use_polyhaven, conn, nwrites, raised,
                   clientVars>>

DispatchNext == ExecuteCall \/ SetPolyhaven

SpecDispatch == DispatchInit /\ [][DispatchNext]_vars

Executed == last.op = "execute_command"

\* the handler of the command's type was looked up and called
Called ==
  /\ last.cmd.obj
  /\ last.cmd.type \in Handlers(last.flag)
  /\ last.cmd.type \in CONTEXT_TYPES => last.view

\* C6: for a registered command type the handler is called; when it raises
\* e the dispatcher returns {status: error, message: str(e)}, when it
\* returns v the dispatcher returns {status: success, result: v}; and
\* execute_command never raises
C6_OutcomeWrapped ==
  Executed =>
    /\ last.dexc = NoExc
    /\ Called => last.ran = last.cmd.type
    /\ last.ran # None =>
         last.resp = IF last.hout.kind = "raise"
                       THEN Error(last.hout.v) ELSE Success(last.hout.v)

C6_Witness ==
  /\ Executed
  /\ last.ran = "create_object"
  /\ last.hout.kind = "raise"
  /\ last.resp = Error("boom")

\* C7: for a command type that is not in the registry at dispatch time the
\* dispatcher returns {status: error, message: "Unknown command type:
\* <type>"}, calls no handler and does not raise
C7_UnknownType ==
  (Executed /\ last.cmd.obj /\ last.cmd.type # UnhashableType
            /\ last.cmd.type \notin Handlers(last.flag)) =>
     /\ last.resp = Error("Unknown command type: " \o last.cmd.type)
     /\ last.ran = None
     /\ last.hout = NoOutcome
     /\ last.dexc = NoExc

C7_Witness ==
  /\ Executed
  /\ last.cmd.type = "get_polyhaven_categories"
  /\ ~last.flag
  /\ last.resp = Error("Unknown command type: get_polyhaven_categories")

\* the step is a call of execute_command on an object: last' is its record
Dispatching ==
  /\ last' # last
  /\ last'.op = "execute_command"
  /\ last'.cmd.obj

\* C23: the flag is read at each dispatch: a PolyHaven command reaches its
\* handler exactly when the flag of the scene is set at that dispatch, and
\* is answered with "Unknown command type" exactly when it is not, whatever
\* the flag was at earlier dispatches; a base command reaches its handler
\* whatever the flag is
C23_FlagFresh ==
  [][Dispatching =>
       LET t == last'.cmd.type IN
       /\ last'.flag = use_polyhaven
       /\ t \in POLYHAVEN_HANDLERS =>
            /\ use_polyhaven <=> last'.ran = t
            /\ ~use_polyhaven <=>
                 last'.resp = Error("Unknown command type: " \o t)
       /\ t \in BASE_HANDLERS =>
            (last'.ran = t <=> (t \in CONTEXT_TYPES => last'.view))]_vars

\* a PolyHaven command was dispatched to its handler
C23_Witness ==
  /\ Executed
  /\ last.cmd.type = "set_texture"
  /\ last.flag
  /\ use_polyhaven
  /\ last.ran = "set_texture"
  /\ last.resp = Success("v")

\* the command is one of the types that need the view context
NeedsContext == last.cmd.obj /\ last.cmd.type \in CONTEXT_TYPES

\* C24: when execute_command has returned the view context is not held;
\* the handler of a command that needs the context runs only inside it, and
\* the context was entered and left whether the handler returned or raised;
\* for every other command the context is never entered
C24_ContextScoped ==
  Executed =>
    /\ last.ctx # "held"
    /\ last.dexc = NoExc
    /\ (NeedsContext /\ last.ran # None) => last.ctx = "released"
    /\ (NeedsContext /\ last.view) =>
         (last.ctx = "released" /\ last.ran = last.cmd.type)
    /\ ~NeedsContext => last.ctx = "never"

\* the handler of delete_object raised inside the context
C24_Witness ==
  /\ Executed
  /\ last.cmd.type = "delete_object"
  /\ last.hout.kind = "raise"
  /\ last.resp = Error("boom")
  /\ last.ctx = "released"

(* ------------------ the server step on one connection ----------------- *)

\* the documents a peer may put on the wire: JSON null, an object without a
\* type, an unregistered type, a JSON array as the type, a command that needs
\* the view context, a plain command, and the two PolyHaven cases
Documents ==
  {<<"null">>, <<"{", "}">>, <<"nonexistent", "P0", "}">>,
   <<UnhashableType, "}">>, <<"create_object", "P0", "}">>,
   <<"get_scene_info", "}">>, <<"get_polyhaven_categories", "P0", "}">>,
   <<"get_polyhaven_status", "}">>}

\* the server was started, a peer has connected and has written one
\* document on its connection, which waits in the backlog
RequestsInit ==
  /\ running = TRUE
  /\ socket = TRUE
  /\ client = 0
  /\ buffer = <<>>
  /\ use_polyhaven = FALSE
  /\ \E m \in Documents :
       conn = [c \in Conns |->
                 IF c = 1
                   THEN [FreeConn EXCEPT !.st = "pending",
                                         !.peerOpen = TRUE, !.c2s = m]
                   ELSE FreeConn]
  /\ nwrites = 1
  /\ raised = 0
  /\ last = Quiet("start")
  /\ ClientInit
  /\ HostInit

RequestsNext == ProcessServer \/ SetPolyhaven

SpecRequests == RequestsInit /\ [][RequestsNext]_vars

(* ------------- the timer, start() and stop(), and the peers ----------- *)

\* the document the peers of this specification write: a request of two
\* runs of bytes, which one recv may return whole or in two parts
StepMsgs == {<<"get_scene_info", "}">>}

PeerWriteStep == PeerWriteOf(StepMsgs)

StepsNext ==
  \/ ProcessServer
  \/ Start
  \/ Stop
  \/ PeerConnect
  \/ PeerWriteStep
  \/ PeerClose

SpecSteps == Init /\ [][StepsNext]_vars

(* ------------------ the backlog of a server that is up ---------------- *)

\* start() of a server that is not running
QueueStart == ~running /\ Start

\* a step of the timer in which no socket call fails
QueueStep == GoodStep

QueueNext ==
  \/ QueueStart
  \/ QueueStep
  \/ PeerConnect
  \/ PeerWriteStep
  \/ PeerClose

\* the timer of the host calls the step again after the 0.1 seconds the
\* step returned: the server does not have work forever without a step.
\* A step of a server that has work changes the state, so this is weak
\* fairness of HasWork /\ QueueStep, with the enabling condition written out
SpecQueue ==
  /\ Init
  /\ [][QueueNext]_vars
  /\ ([]<>(~HasWork) \/ []<><<HasWork /\ QueueStep>>_vars)

(* ---------------------- the operators of the panel ------------------- *)

\* BlenderMCPServer(port=...): the fields after __init__
NewInstance == [running |-> FALSE, socket |-> FALSE, client |-> 0,
                buffer |-> <<>>]

\* BLENDERMCP_OT_StartServer.execute: make the instance when there is none,
\* call start() on it, and set the flag of the scene
StartServer ==
  \E bindOk \in BOOLEAN :
    LET s == StartOp(IF blendermcp_server THEN Self ELSE NewInstance, bindOk)
    IN /\ running' = s.running
       /\ socket' = s.socket
       /\ client' = s.client
       /\ buffer' = s.buffer
       /\ conn' = NetAfterSelf(s, TRUE)
       /\ blendermcp_server' = TRUE
       /\ blendermcp_server_running' = TRUE
       /\ last' = Quiet("StartServer")
       /\ UNCHANGED <<use_polyhaven, nwrites, raised, clientVars>>

\* BLENDERMCP_OT_StopServer.execute: stop() and delete the instance when
\* there is one, and clear the flag of the scene
StopServer ==
  LET s == IF blendermcp_server THEN StopOp(Self) ELSE Self IN
  /\ running' = s.running
  /\ socket' = s.socket
  /\ client' = s.client
  /\ buffer' = s.buffer
  /\ conn' = NetAfterSelf(s, blendermcp_server)
  /\ blendermcp_server' = FALSE
  /\ blendermcp_server_running' = FALSE
  /\ last' = Quiet("StopServer")
  /\ UNCHANGED <<use_polyhaven, nwrites, raised, clientVars>>

\* the user of the panel, the timer and the peers
OperatorsNext ==
  \/ StartServer
  \/ StopServer
  \/ ProcessServer
  \/ PeerConnect
  \/ PeerWriteStep
  \/ PeerClose

SpecOperators == Init /\ [][OperatorsNext]_vars

(* ------------- the manager, its socket and the server ---------------- *)

\* BlenderConnection.disconnect: with a socket held, close it and clear the
\* reference, whether close() raised or not; without one, nothing
Disconnect(sockv) == [sock |-> 0, closed |-> sockv]

\* a call of disconnect() by the owner of the manager
CallDisconnect ==
  /\ cpc = "idle"
  /\ LET d == Disconnect(sock) IN
     /\ sock' = d.sock
     /\ conn' = IF d.closed = 0 THEN conn
                ELSE [conn EXCEPT ![d.closed].peerOpen = FALSE]
     /\ call' = [NoCall EXCEPT !.type = "disconnect()", !.held = sock,
                               !.stage = "disconnect",
                               !.outcome = "return"]
  /\ UNCHANGED <<serverVars, use_polyhaven, nwrites, raised, last, cpc,
                 chunks, ncalls, globalVars>>

\* the caller, who calls send_command and disconnect(), the collector, and
\* a server that is up and whose socket calls do not fail
OwnerNext ==
  \/ QueueStart
  \/ QueueStep
  \/ SendCommand
  \/ ClientRecv
  \/ CallDisconnect
  \/ Collect

SpecOwner == Init /\ [][OwnerNext]_vars

(* ----------------------- get_blender_connection ----------------------- *)

\* the results that are dicts: the ones `result.get` can be called on
DictValues ==
  {"v", "{}", "{'k': [True]}", "{'1': None}", PolyhavenStatus(TRUE),
   PolyhavenStatus(FALSE), "categories", "material:applied",
   "material:not_found", "material:cannot_accept"}

\* _polyhaven_enabled = result.get("enabled", False)
ResultGetEnabled(value) ==
  IF value \in DictValues
    THEN [exc |-> NoExc, enabled |-> (value = PolyhavenStatus(TRUE))]
    ELSE [exc |-> "AttributeError", enabled |-> FALSE]

\* a function that keeps the new object in the global when its connect()
\* has failed
GlobalKeptAfterConnect(ret) == TRUE

\* the global after connect() on the new object: the object, or None when
\* connect() returned false
GlobalAfterConnect(ret) == ret

\* the second half of get_blender_connection: a new BlenderConnection is
\* made and connected; g is the record of the call so far, net the
\* connections
CreateConnection(g, net) ==
  \E ok \in (IF Free # {} THEN ConnectOutcomes ELSE {FALSE}) :
    LET k == Connect(0, ok, IF Free # {} THEN Min(Free) ELSE 0) IN
    /\ sock' = k.sock
    /\ conn' = IF k.opened = 0 THEN net
               ELSE [net EXCEPT ![k.opened] =
                       [FreeConn EXCEPT !.st = "pending",
                                        !.owner = "client",
                                        !.peerOpen = TRUE]]
    /\ blender_connection' = GlobalAfterConnect(k.ret)
    /\ gbc' = [g EXCEPT
                 !.pc = "idle",
                 !.created = k.ret,
                 !.outcome = IF k.ret THEN "return" ELSE "raise",
                 !.error = IF k.ret THEN ""
                           ELSE "Could not connect to Blender. Make sure the Blender addon is running."]
    /\ UNCHANGED polyhaven_enabled

\* the entry of get_blender_connection: with a connection object in the
\* global, the probe send_command("get_polyhaven_status") is begun; without
\* one, a new object is made and connected
GetBlenderConnectionBegin ==
  /\ cpc = "idle"
  /\ gbc.pc = "idle"
  /\ IF blender_connection
       THEN /\ ncalls < MaxCalls
            /\ sock = 0 => Free # {}
            /\ \E ok \in ConnectOutcomes,
                  se \in {NoExc, "ConnectionError"} :
                 /\ se = NoExc
                    \/ (sock # 0 /\ se \in ClientSendOutcomes(sock))
                 /\ SendCommandStep("get_polyhaven_status", ok, se)
            /\ gbc' = [NoGet EXCEPT !.pc = "probe", !.had = TRUE]
            /\ UNCHANGED <<blender_connection, polyhaven_enabled>>
       ELSE /\ CreateConnection(NoGet, conn)
            /\ UNCHANGED <<serverVars, use_polyhaven, nwrites, raised, last,
                           cpc, chunks, call, ncalls>>

\* get_blender_connection after the probe has returned or raised: the flag
\* is stored and the object returned, or the object is disconnected and
\* dropped and a new one is made and connected
GetBlenderConnectionEnd ==
  /\ gbc.pc = "probe"
  /\ cpc = "idle"
  /\ LET e == ResultGetEnabled(call.value) IN
     IF call.outcome = "return" /\ e.exc = NoExc
       THEN /\ polyhaven_enabled' = e.enabled
            /\ gbc' = [gbc EXCEPT !.pc = "idle", !.outcome = "return",
                                  !.probed = TRUE]
            /\ UNCHANGED <<sock, conn, blender_connection>>
       ELSE LET d == Disconnect(sock) IN
            CreateConnection(
              [gbc EXCEPT !.discarded = TRUE, !.closed = d.closed],
              IF d.closed = 0 THEN conn
              ELSE [conn EXCEPT ![d.closed].peerOpen = FALSE])
  /\ UNCHANGED <<serverVars, use_polyhaven, nwrites, raised, last, cpc,
                 chunks, call, ncalls, tool>>

\* a call of get_blender_connection that is not made by a tool, as the one
\* of server_lifespan
GetBlenderConnection ==
  /\ tool.pc = "idle"
  /\ GetBlenderConnectionBegin
  /\ UNCHANGED tool

\* the callers of get_blender_connection, the user of the host, and a
\* server whose socket calls do not fail
GlobalNext ==
  \/ QueueStart
  \/ Stop
  \/ QueueStep
  \/ SetPolyhaven
  \/ GetBlenderConnection
  \/ GetBlenderConnectionEnd
  \/ ClientRecv
  \/ Collect

SpecGlobal == Init /\ [][GlobalNext]_vars

(* ------------------------------ the tools ----------------------------- *)

\* BlenderMCPServer.set_material on the object named a: found says whether
\* bpy.data.objects has it, accepts whether its data has materials.  The
\* ValueError raised inside is caught by the handler's own except clause,
\* which returns a dict
SetMaterial(found, accepts) ==
  [kind |-> "return",
   v |-> IF ~found THEN "material:not_found"
         ELSE IF ~accepts THEN "material:cannot_accept"
         ELSE "material:applied"]

\* the dicts with which set_material reports a failure
MaterialFailures == {"material:not_found", "material:cannot_accept"}

\* what the handler of command type t does on the scene
HandlerOf(t, found, accepts) ==
  IF t = "set_material" THEN SetMaterial(found, accepts)
  ELSE IF t = "get_polyhaven_categories"
    THEN [kind |-> "return", v |-> "categories"]
  ELSE DefaultOutcome

\* a step of the server that finds something to do; the Request in flight
\* is the one of the call
ToolStep ==
  /\ HasWork
  /\ \E found \in BOOLEAN, accepts \in BOOLEAN :
       GoodStepWith(HandlerOf(call.type, found, accepts))

\* the user of the host changes the flag while no tool is being called
ToolSetPolyhaven == tool.pc = "idle" /\ SetPolyhaven

\* the `except Exception` clause of a tool: the message it returns
ToolError(name, msg) ==
  (IF name = "set_material" THEN "Error setting material: "
   ELSE "Error getting Polyhaven categories: ") \o msg

\* the first line of a tool: blender = get_blender_connection()
ToolCall ==
  /\ tool.pc = "idle"
  /\ GetBlenderConnectionBegin
  /\ \E name \in ToolTypes :
       tool' = [NoTool EXCEPT !.name = name, !.pc = "connecting"]

\* `if not _polyhaven_enabled: return "PolyHaven integration is disabled..."`
\* in get_polyhaven_categories; set_material has no such line
Gate(name, enabled) == name = "get_polyhaven_categories" /\ ~enabled

\* a tool after get_blender_connection has returned or raised: the answer
\* of the except clause, the answer "disabled", or the send_command of the
\* tool
ToolProceed ==
  /\ tool.pc = "connecting"
  /\ gbc.pc = "idle"
  /\ cpc = "idle"
  /\ IF gbc.outcome = "raise"
       THEN /\ tool' = [tool EXCEPT !.pc = "idle",
                                    !.answer = ToolError(tool.name, gbc.error)]
            /\ UNCHANGED <<sock, cpc, chunks, call, ncalls, conn>>
       ELSE LET t == [tool EXCEPT
                        !.checked = (tool.name = "get_polyhaven_categories"),
                        !.cached = polyhaven_enabled,
                        !.host = use_polyhaven]
            IN IF Gate(tool.name, polyhaven_enabled)
                 THEN /\ tool' = [t EXCEPT
                                    !.pc = "idle",
                                    !.answer = "PolyHaven integration is disabled. Select it in the sidebar in BlenderMCP, then run it again."]
                      /\ UNCHANGED <<sock, cpc, chunks, call, ncalls, conn>>
                 ELSE /\ ncalls < MaxCalls
                      /\ \E ok \in ConnectOutcomes,
                            se \in {NoExc, "ConnectionError"} :
                           /\ se = NoExc
                              \/ (sock # 0 /\ se \in ClientSendOutcomes(sock))
                           /\ SendCommandStep(tool.name, ok, se)
                      /\ tool' = [t EXCEPT !.pc = "sent", !.sent = TRUE]
  /\ UNCHANGED <<serverVars, use_polyhaven, nwrites, raised, last,
                 blender_connection, polyhaven_enabled, gbc>>

\* the lines of a tool after send_command: the formatted result, or the
\* message of the except clause
ToolAnswer(name, c) ==
  IF c.outcome = "raise" THEN ToolError(name, c.error)
  ELSE IF c.value \notin DictValues
    THEN ToolError(name, "object has no attribute 'get'")
  ELSE IF name = "set_material"
    THEN "Applied material to a: unknown"
  ELSE IF c.value = "categories" THEN "Categories for hdris:"
  ELSE ToolError(name, "'categories'")

\* a tool after its send_command has returned or raised
ToolEnd ==
  /\ tool.pc = "sent"
  /\ cpc = "idle"
  /\ tool' = [tool EXCEPT !.pc = "idle",
                          !.answer = ToolAnswer(tool.name, call)]
  /\ UNCHANGED <<serverVars, use_polyhaven, conn, nwrites, raised, last, sock,
                 cpc, chunks, call, ncalls, blender_connection,
                 polyhaven_enabled, gbc>>

\* the callers of the tools, the user of the host, and a server whose
\* socket calls do not fail
ToolsNext ==
  \/ QueueStart
  \/ Stop
  \/ ToolStep
  \/ ToolSetPolyhaven
  \/ ToolCall
  \/ GetBlenderConnectionEnd
  \/ ToolProceed
  \/ ToolEnd
  \/ ClientRecv
  \/ Collect

SpecTools == Init /\ [][ToolsNext]_vars

(* --------------------- properties of the server step ------------------ *)

Stepped == last.op = "_process_server"

\* the step wrote one whole Response
WroteResponse == last.sends = 1 /\ last.sendexc = NoExc /\ last.frags = 2

\* C1 as stated: a step writes exactly one Response if and only if the
\* accumulated buffer parsed as JSON in that step
C1_ResponseIffParsed == Stepped => (WroteResponse <=> last.parsed)

\* C1 as amended: a step in which no parse succeeded writes no Response, no
\* step writes more than one, and a step whose buffer parses writes exactly
\* one whole Response unless json.dumps rejects the Response or sendall
\* raises; in these two cases no whole Response is written
C1_ResponseOnlyIfParsed ==
  Stepped =>
    /\ last.sends <= 1
    /\ (last.sends > 0 \/ last.frags > 0) => last.parsed
    /\ last.parsed =>
         (WroteResponse <=> (Serializable(last.resp) /\ last.sendexc = NoExc))

C1_Witness == Stepped /\ last.parsed /\ WroteResponse

\* C3: the server holds at most one client socket: every connection whose
\* server end is open is the one in self.client, and a step calls accept
\* only when it found self.client empty
C3_OneClient ==
  /\ \A c \in Conns : conn[c].st = "accepted" => client = c
  /\ Stepped /\ last.accepts > 0 => last.had = 0

\* a step ran while a client was held and another connection was waiting
C3_Witness ==
  /\ Stepped
  /\ last.had # 0
  /\ client = last.had
  /\ Pending # {}

\* C4: once the bytes received on the connection since the last parse form
\* a document, the step parses and dispatches the command of that document,
\* as a single receive of the document does; and a receive that does not
\* complete a document leaves the client connected with the bytes buffered
C4_SplitAsWhole ==
  Stepped /\ last.nrecv > 0 =>
    /\ last.whole => (last.parsed /\ last.cmd = last.wholecmd)
    /\ ~last.parsed => (client = last.held /\ buffer # <<>>)

\* C5: whenever a step accepts a new client the buffer is empty
C5_FreshBuffer == Stepped /\ last.accepted # 0 => ~last.dirty

C9_NoEscape ==
  Stepped => (last.exc = NoExc /\ last.ret \in {DELAY, None})

\* close() raised in the end-of-stream branch and the except clause of the
\* receive block closed again
C9_Witness ==
  /\ Stepped
  /\ last.eof
  /\ last.closes = 2
  /\ last.caught = "recv"
  /\ last.ret = DELAY

\* C10: a transport exception of recv or of sendall resets the connection
\* in the same step, also when sendall would block
C10_TransportErrorResets ==
  (Stepped /\ (last.recvexc \notin {NoExc, "BlockingIOError"}
               \/ last.sendexc # NoExc)) =>
     /\ client = 0
     /\ buffer = <<>>
     /\ conn[last.held].st = "closed"

\* the step did nothing on the sockets and ran no command
Inert ==
  /\ last.accepts = 0
  /\ last.recvs = 0
  /\ last.dispatched = 0
  /\ last.sends = 0
  /\ last.closes = 0

\* C25: _process_server returns None exactly when running is false at its
\* entry, and then it has called no accept, recv or sendall; when running is
\* true at its entry it returns 0.1, whatever accept, recv, the dispatch,
\* sendall and close did
C25_StopSignal ==
  Stepped =>
    /\ last.ret = None <=> ~running
    /\ ~running => Inert
    /\ running => last.ret = DELAY

\* a step that ran after stop()
C25_Witness ==
  /\ Stepped
  /\ ~running
  /\ last.ret = None
  /\ \E c \in Conns : conn[c].st = "closed"

\* the server is stopped: running is false, and there is no listening
\* socket, no client socket and no connection whose server end is open
Stopped ==
  /\ ~running
  /\ ~socket
  /\ client = 0
  /\ \A c \in Conns : conn[c].st \notin {"pending", "accepted"}

\* the timer runs the step of a stopped server
StoppedStep == ~running /\ last' # last /\ last'.op = "_process_server"

NextQueued(d) == conn[d].st = "pending" /\ d = Min(Pending)

\* what the peer of d has written and the server has not parsed yet is
\* one whole document
OneDocument(d) == conn[d].got \o conn[d].c2s \in StepMsgs

\* nothing of connection d was read or answered
Untouched(d) ==
  /\ conn[d].got = <<>>
  /\ conn[d].parsed = 0
  /\ conn[d].sent = 0
  /\ conn[d].s2c = <<>>

\* C27: a connection made while a client is held stays in the backlog,
\* where nothing of it is read or answered, and a step accepts only when it
\* holds no client; once a step has dropped the client, the connection that
\* waited longest is accepted by a later step, and the one document its peer
\* wrote is answered unless the peer closes or writes more
C27_QueuedThenServed ==
  /\ [](\A d \in Conns : conn[d].st = "pending" => Untouched(d))
  /\ [][last'.accepted # last.accepted /\ last'.accepted # 0 =>
          client = 0 /\ client' \in {0, last'.accepted}]_vars
  /\ \A d \in Conns :
       /\ (running /\ client = 0 /\ NextQueued(d)) ~>
            conn[d].st \in {"accepted", "closed"}
       /\ (running /\ client = 0 /\ NextQueued(d) /\ OneDocument(d)) ~>
            (conn[d].sent > 0 \/ ~conn[d].peerOpen \/ ~OneDocument(d))

\* the second connection waited with its request while the first client
\* was held, and was accepted and answered after the first had closed
C27_Witness ==
  /\ Stepped
  /\ conn[1].st = "closed"
  /\ conn[1].sent = 0
  /\ client = 2
  /\ conn[2].sent = 1
  /\ last.held = 2
  /\ last.had = 2

\* C28: a step whose recv returns zero bytes closes the client socket,
\* clears the buffer and holds no client when it returns; it dispatches
\* nothing and sends nothing, the server keeps running with its listening
\* socket, and the accept block of the next step is open
C28_ZeroReadResets ==
  (Stepped /\ last.eof) =>
    /\ client = 0
    /\ buffer = <<>>
    /\ conn[last.held].st = "closed"
    /\ last.dispatched = 0
    /\ last.sends = 0
    /\ last.frags = 0
    /\ running
    /\ last.ret = DELAY
    /\ AcceptGuard(client, socket)

\* the peer closed after a part of its request, while another connection
\* was waiting
C28_Witness ==
  /\ Stepped
  /\ last.eof
  /\ last.dirty
  /\ client = 0
  /\ buffer = <<>>
  /\ Pending # {}

\* the bytes the step that gave the record last' received
Received ==
  IF last'.held = 0 THEN <<>>
  ELSE SubSeq(conn[last'.held].c2s, 1, last'.nrecv)

\* after a step the buffer is the buffer before it followed by the bytes
\* the step received, or it is empty
C29_Grows ==
  [][last'.op = "_process_server" /\ ProcessServer =>
       (buffer' = buffer \o Received \/ buffer' = <<>>)]_vars

\* a step empties the buffer only when it parsed it or dropped the client
C29_Resets ==
  [][buffer' = <<>> /\ ProcessServer /\ buffer \o Received # <<>> =>
       (last'.parsed \/ (last'.held # 0 /\ client' = 0))]_vars

\* a step that received bytes and did not parse the buffer keeps the whole
\* buffer, dispatches nothing and keeps the client
C29_Retains ==
  [][last'.nrecv > 0 /\ ~last'.parsed /\ ProcessServer =>
       /\ buffer' = buffer \o Received
       /\ last'.dispatched = 0
       /\ client' = last'.held
       /\ conn'[last'.held].st = "accepted"]_vars

\* C29: the buffer only grows between resets: a step leaves the previous
\* buffer followed by the bytes it received, or an empty buffer; the buffer
\* is emptied only by a successful parse or a disconnect; and while the
\* accumulated bytes do not parse, the whole buffer is retained, nothing is
\* dispatched and the client stays connected
C29_BufferGrows == C29_Grows /\ C29_Resets /\ C29_Retains

\* a step of a running server that holds no client and finds no connection
\* waiting
NoPendingStep ==
  /\ running
  /\ client = 0
  /\ last'.accepts = 1
  /\ last'.accepted = 0
  /\ ProcessServer

\* a step of a running server that holds a client and finds no data
NoDataStep ==
  /\ running
  /\ client # 0
  /\ last'.recvs = 1
  /\ last'.recvexc = "BlockingIOError"
  /\ ProcessServer

\* C30: a step that finds no connection waiting while no client is held,
\* or no data while a client is held, leaves the client socket, the buffer,
\* running, the listening socket and the connections as they were, runs no
\* handler, sends and closes nothing, and returns the delay
C30_IdleStepFrame ==
  [][(NoPendingStep \/ NoDataStep) =>
       /\ UNCHANGED <<client, buffer, running, socket, conn>>
       /\ last'.dispatched = 0
       /\ last'.ran = None
       /\ last'.sends = 0
       /\ last'.frags = 0
       /\ last'.closes = 0
       /\ last'.ret = DELAY]_vars

\* a step found no data on a client whose request is half received
C30_Witness ==
  /\ Stepped
  /\ last.had # 0
  /\ last.recvexc = "BlockingIOError"
  /\ last.dirty
  /\ client = last.had
  /\ buffer # <<>>

\* the bytes hold a complete JSON document followed by bytes that are not
\* whitespace only
Pipelined(b) ==
  \E n \in 1..(Len(b) - 1) :
    /\ Loads(SubSeq(b, 1, n)).exc = NoExc
    /\ StripLeft(SubSeq(b, n + 1, Len(b))) # <<>>

\* a step of the server while the buffer of its client holds a document
\* followed by further bytes
PipelinedStep ==
  /\ client # 0
  /\ Pipelined(buffer)
  /\ last'.op = "_process_server"
  /\ ProcessServer

\* C31: once the buffer holds a complete document followed by further
\* bytes, no step on that connection parses a message, dispatches a command
\* or sends a Response: a step leaves the buffer followed by the bytes it
\* received, which is again a document followed by further bytes, with the
\* client still held, or it drops the client and empties the buffer; and no
\* step ever parses a buffer in which bytes follow the document
C31_PipelinedStuck ==
  /\ [][PipelinedStep =>
          /\ ~last'.parsed
          /\ last'.dispatched = 0
          /\ last'.ran = None
          /\ last'.sends = 0
          /\ last'.frags = 0
          /\ \/ /\ client' = client
                /\ buffer' = buffer \o Received
                /\ Pipelined(buffer')
                /\ conn'[client].parsed = conn[client].parsed
                /\ conn'[client].sent = conn[client].sent
             \/ /\ client' = 0
                /\ buffer' = <<>>
                /\ conn'[client].st = "closed"]_vars
  /\ [][last'.op = "_process_server" /\ last'.parsed /\ ProcessServer =>
          ~Pipelined(buffer \o Received)]_vars

\* the second request arrived before the first was whole: the step that
\* received its last byte found the first request and a part of the second
\* in the buffer, and left both requests there
C31_Witness ==
  /\ Stepped
  /\ client # 0
  /\ last.had = client
  /\ last.dirty
  /\ last.nrecv = 1
  /\ ~last.parsed
  /\ buffer = <<"get_scene_info", "}", "get_scene_info", "}">>
  /\ conn[client].parsed = 0
  /\ conn[client].sent = 0

\* a server instance exists that is running and listening
ServerUp == blendermcp_server /\ running /\ socket

\* C37: after any sequence of executions of the StartServer and StopServer
\* operators, scene.blendermcp_server_running is true exactly when a server
\* instance exists that is running and listening
C37_FlagMatchesServer == blendermcp_server_running <=> ServerUp

\* C40: a step calls accept at most once, recv at most once, the
\* dispatcher at most once and sendall at most once, and runs a handler
\* only in its one dispatch; recv is called on the client the same step
\* accepted; and none of its socket calls waits for the peer, so that only
\* the handler can hold the step for an unbounded time
C40_OneOfEach ==
  Stepped =>
    /\ last.accepts <= 1
    /\ last.recvs <= 1
    /\ last.dispatched <= 1
    /\ last.sends <= 1
    /\ last.ran # None => last.dispatched = 1
    /\ last.accepted # 0 => (last.recvs = 1 /\ last.held = last.accepted)
    /\ last.recvs = 1 => last.held # 0
    /\ last.waits = 0

\* the step accepted a client, received its whole request, ran the handler
\* and wrote the Response
C40_Witness ==
  /\ Stepped
  /\ last.accepts = 1
  /\ last.accepted # 0
  /\ last.recvs = 1
  /\ last.held = last.accepted
  /\ last.parsed
  /\ last.ran = "get_scene_info"
  /\ WroteResponse

\* the step wrote bytes of an error Response
SentError == Stepped /\ last.frags > 0 /\ last.resp.status = "error"

\* the handler of the command raised
HandlerRaised ==
  last.hout.kind = "raise" /\ last.resp = Error(last.hout.v)

\* the type of the command is not in the registry
UnknownType ==
  /\ last.cmd.obj
  /\ last.cmd.type # UnhashableType
  /\ last.cmd.type \notin Handlers(last.flag)
  /\ last.resp = Error("Unknown command type: " \o last.cmd.type)

\* the parsed value is no object, the type is a JSON array, or the screen
\* has no VIEW_3D area for a command that needs one
MalformedOrNoContext ==
  \/ ~last.cmd.obj /\ last.resp = Error("object has no attribute 'get'")
  \/ /\ last.cmd.obj
     /\ last.cmd.type = UnhashableType
     /\ last.resp = Error("unhashable type: 'list'")
  \/ /\ last.cmd.obj
     /\ last.cmd.type \in CONTEXT_TYPES
     /\ ~last.view
     /\ last.resp = Error("list index out of range")

\* C11 as stated: every error Response the server sends comes from a handler
\* that raised or from an unknown command type
C11_OnlyHandlerOrUnknown == SentError => (HandlerRaised \/ UnknownType)

\* C11 as amended: an error Response comes from a handler that raised, from
\* an unknown command type, or from an exception execute_command caught
\* before the handler ran (the parsed value is no object, the type is
\* unhashable, the view context is missing); a Response that json.dumps
\* rejects is not sent and the connection is dropped in that step
C11_ErrorOrigins ==
  /\ SentError => (HandlerRaised \/ UnknownType \/ MalformedOrNoContext)
  /\ (Stepped /\ last.parsed /\ last.resp = Success("unserializable")) =>
       /\ last.sends = 0
       /\ last.frags = 0
       /\ client = 0
       /\ buffer = <<>>
       /\ conn[last.held].st = "closed"

\* JSON null was parsed and answered with an error Response
C11_Witness ==
  /\ SentError
  /\ WroteResponse
  /\ ~last.cmd.obj
  /\ last.resp = Error("object has no attribute 'get'")

(* ----------------------- properties of the client --------------------- *)

\* the last operation of the caller was a call of send_command that is over
CallEnded == cpc = "idle" /\ call.type \in ClientTypes

\* the call decoded a Response and interpreted it
GotResponse == CallEnded /\ call.stage = "response"

Wrapped(m) == "Communication error with Blender: " \o m

\* C12: send_command returns the result field of a Response with status
\* "success", and raises an error that carries the message of a Response
\* with status "error"
C12_InterpretsStatus ==
  GotResponse =>
    /\ Get(call.response, "status", None) = "success" =>
         /\ call.outcome = "return"
         /\ call.value = call.response.result
    /\ Get(call.response, "status", None) = "error" =>
         /\ call.outcome = "raise"
         /\ call.error = Wrapped(call.response.message)

\* the call received {status: error, message: boom} and raised with it
C12_Witness ==
  /\ GotResponse
  /\ call.response = Error("boom")
  /\ call.outcome = "raise"
  /\ call.error = Wrapped("boom")

\* C13: send_command returns a value only when it received a Response with
\* status "success"; in every other outcome it raises
C13_ReturnsOnlyOnSuccess ==
  CallEnded =>
    /\ call.outcome \in {"return", "raise"}
    /\ call.outcome = "return" <=>
         (call.stage = "response"
          /\ Get(call.response, "status", None) = "success")

\* the exception classes of a failed socket call
TransportErrors == {"ConnectionError", "OSError", "timeout"}

\* the call failed in sendall or in the receive loop on a transport error,
\* or the receive timed out
TransportFault ==
  /\ CallEnded
  /\ call.stage \in {"send", "recv"}
  /\ (call.exc \in TransportErrors \/ call.recv = "timeout")

\* C14: when send_command fails on a transport error or a receive timeout,
\* the socket reference is cleared and the caller gets an error
C14_FaultInvalidates ==
  TransportFault =>
    /\ sock = 0
    /\ call.outcome = "raise"
    /\ call.error # ""

\* the receive of a call that reused its socket timed out
C14_Witness ==
  /\ TransportFault
  /\ call.recv = "timeout"
  /\ call.held # 0
  /\ sock = 0

\* C16: a call of send_command calls connect() at most once, and only when
\* it found no socket, writes its Request at most once, and leaves the
\* manager with the socket it used or with none
C16_NoRetry ==
  call.type \in ClientTypes =>
    /\ call.connects <= 1
    /\ call.held # 0 => call.connects = 0
    /\ call.writes <= 1
    /\ sock \in {0, call.conn}
    /\ (CallEnded /\ call.outcome = "raise") => sock \in {0, call.held}

\* a call connected, wrote its Request and failed in the receive loop
C16_Witness ==
  /\ CallEnded
  /\ call.outcome = "raise"
  /\ call.stage = "recv"
  /\ call.connects = 1
  /\ call.writes = 1
  /\ sock = 0

\* C17: connect() never raises; with a socket held it returns true, opens
\* nothing and keeps the socket; with none it makes one attempt and returns
\* true with the socket set or false with the socket empty
C17_ConnectIdempotent ==
  call.type = "connect()" =>
    /\ call.outcome = "return"
    /\ call.held # 0 =>
         (call.value = "True" /\ sock = call.held /\ call.connects = 0)
    /\ call.held = 0 =>
         /\ call.connects = 1
         /\ \/ call.value = "True" /\ sock # 0
            \/ call.value = "False" /\ sock = 0

\* connect() was called while a socket was held
C17_Witness ==
  /\ call.type = "connect()"
  /\ call.held # 0
  /\ call.value = "True"

\* C18: a send_command that finds no socket and whose connect() fails raises
\* ConnectionError("Not connected to Blender"), writes nothing and leaves
\* the manager without a socket
C18_NotConnected ==
  (call.type \in ClientTypes /\ call.stage = "connect") =>
    /\ cpc = "idle"
    /\ call.outcome = "raise"
    /\ call.exc = "ConnectionError"
    /\ call.error = "Not connected to Blender"
    /\ call.writes = 0
    /\ call.conn = 0
    /\ sock = 0

\* the second call found no socket and could not connect
C18_Witness ==
  /\ call.type \in ClientTypes
  /\ call.stage = "connect"
  /\ call.held = 0
  /\ call.outcome = "raise"
  /\ ncalls = 2

\* the call that follows a transport failure connected and waits for its
\* Response
Retrying == Reconnecting /\ call.type \in ClientTypes /\ cpc = "recv"

\* C15: the call after a call that failed on a transport error finds no
\* socket and connects by itself, and, the server being up and running its
\* steps, it returns the result of its Request
C15_ReconnectSucceeds ==
  /\ [](Reconnecting => (call.held = 0 /\ call.connects = 1))
  /\ Retrying ~> (CallEnded /\ call.outcome = "return")

\* the receive loop of the call ended on a chunk of zero bytes
ZeroRead == CallEnded /\ call.stage = "recv" /\ call.recv = "eof"

\* the receive loop of the call ended on the timeout of recv
TimedOut == CallEnded /\ call.stage = "recv" /\ call.recv = "timeout"

\* C19: when recv returns zero bytes and nothing was accumulated the call
\* fails with "Connection closed before receiving any data"; when bytes
\* were accumulated, which do not parse, it fails with "Incomplete JSON
\* response received"
C19_ZeroRead ==
  ZeroRead =>
    /\ call.outcome = "raise"
    /\ call.error =
         Wrapped(IF call.had THEN "Incomplete JSON response received"
                 ELSE "Connection closed before receiving any data")

\* the peer closed after one fragment of its Response
C19_Witness ==
  /\ ZeroRead
  /\ call.had
  /\ call.error = Wrapped("Incomplete JSON response received")

\* C20 as stated: on the timeout the call ends as on a zero-length read
C20_TimeoutAsZeroRead ==
  TimedOut =>
    /\ call.outcome = "raise"
    /\ call.error =
         Wrapped(IF call.had THEN "Incomplete JSON response received"
                 ELSE "Connection closed before receiving any data")

\* C20 as amended: on the timeout the call fails with "Incomplete JSON
\* response received" when bytes were accumulated and with "No data
\* received" when none were, and the socket reference is cleared
C20_TimeoutFinalizes ==
  TimedOut =>
    /\ call.outcome = "raise"
    /\ call.error =
         Wrapped(IF call.had THEN "Incomplete JSON response received"
                 ELSE "No data received")
    /\ sock = 0

\* the receive timed out before any byte arrived
C20_Witness ==
  /\ TimedOut
  /\ ~call.had
  /\ call.error = Wrapped("No data received")

\* the call decoded a Response with status "error"
GotError == GotResponse /\ Get(call.response, "status", None) = "error"

\* C33: a call that decoded a Response with status "error" raises an error
\* that carries the message of the Response and leaves the manager without a
\* socket, although the connection is in order; the send_command after it
\* finds no socket and calls connect(), and does not use the connection of
\* the failed call
C33_ErrorResponseInvalidates ==
  /\ [](GotError =>
          /\ call.outcome = "raise"
          /\ call.error =
               Wrapped(Get(call.response, "message",
                           "Unknown error from Blender"))
          /\ sock = 0)
  /\ [][(GotError /\ ncalls' = ncalls + 1) =>
          /\ call'.held = 0
          /\ call'.connects = 1
          /\ call'.conn # call.conn
          /\ sock' \in {0, call'.conn}]_vars

\* the second call, on the connection the first call had used, received an
\* error Response; the peer has not closed the connection
C33_Witness ==
  /\ GotError
  /\ call.response = Error("boom")
  /\ call.held # 0
  /\ call.conn = call.held
  /\ conn[call.conn].st = "pending"
  /\ conn[call.conn].peerOpen
  /\ sock = 0

\* the manager had a socket before the step and has none after it
Disconnects == sock # 0 /\ sock' = 0

\* the client end of connection c is open
ClientEndOpen(c) == conn[c].owner = "client" /\ conn[c].peerOpen

\* a step in which disconnect() gives up the socket closes it
C34_DisconnectCloses ==
  [][(Disconnects /\ call'.type = "disconnect()") =>
       ~conn'[sock].peerOpen]_vars

\* a step in which send_command gives up the socket closes it
C34_FaultCloses ==
  [][(Disconnects /\ call'.type \in ClientTypes) =>
       ~conn'[sock].peerOpen]_vars

\* every connection whose client end is open is the one the manager holds
C34_NoOrphan == [](\A c \in Conns : ClientEndOpen(c) => sock = c)

\* C34: whenever the manager goes from Connected to Disconnected, through
\* disconnect() or through a fault path of send_command, the socket it held
\* is closed in that operation, and no socket is open that the manager does
\* not hold
C34_ClosedOnDisconnect ==
  C34_DisconnectCloses /\ C34_FaultCloses /\ C34_NoOrphan

\* the step ends a call of get_blender_connection
GetEnds == gbc' # gbc /\ gbc'.pc = "idle"

\* C36: get_blender_connection returns with the global set to an object
\* whose socket is set, or raises; the object that was in the global at the
\* entry is returned only after its send_command("get_polyhaven_status")
\* has returned; when that call raised, the object is disconnected and
\* dropped and a new one is made; and when the function raises, connect()
\* on the new object has failed and the global is None
C36_ConnectionOrRaise ==
  [][GetEnds =>
       /\ gbc'.outcome \in {"return", "raise"}
       /\ gbc'.outcome = "return" =>
            /\ blender_connection'
            /\ sock' # 0
            /\ conn'[sock'].owner = "client"
            /\ gbc'.probed \/ gbc'.created
       /\ gbc'.probed =>
            /\ gbc'.had
            /\ ~gbc'.discarded
            /\ ~gbc'.created
            /\ sock' = sock
            /\ call.type = "get_polyhaven_status"
            /\ call.outcome = "return"
            /\ call.writes = 1
       /\ (gbc'.had /\ call.outcome = "raise") =>
            /\ gbc'.discarded
            /\ gbc'.outcome = "return" => (gbc'.created /\ sock' # sock)
       /\ gbc'.outcome = "raise" =>
            /\ ~blender_connection'
            /\ sock' = 0
            /\ ~gbc'.created
            /\ gbc'.error =
                 "Could not connect to Blender. Make sure the Blender addon is running."]_vars

\* the probe on the existing object timed out, and the function returned a
\* new object with a new connection
C36_Witness ==
  /\ gbc.pc = "idle"
  /\ gbc.outcome = "return"
  /\ gbc.had
  /\ gbc.discarded
  /\ gbc.created
  /\ call.type = "get_polyhaven_status"
  /\ call.recv = "timeout"
  /\ blender_connection
  /\ sock = 2

\* get_polyhaven_categories has consulted the cached flag
Consulted == tool.name = "get_polyhaven_categories" /\ tool.checked

Disabled ==
  "PolyHaven integration is disabled. Select it in the sidebar in BlenderMCP, then run it again."

\* C38: the cached flag get_polyhaven_categories consults equals the flag
\* of the host during that call, also in the first call after the
\* connection object was made or made anew; so the tool answers
\* "PolyHaven integration is disabled" only when the flag of the host is
\* false
C38_CachedFlagFresh ==
  Consulted =>
    /\ tool.cached = tool.host
    /\ tool.answer = Disabled => ~tool.host

\* the tool has got the answer to its send_command("set_material")
MaterialAnswered ==
  tool.name = "set_material" /\ tool.pc = "idle" /\ tool.sent

\* when the set_material handler fails, the Response of the step has
\* status "error"
C39_ErrorResponse ==
  (Stepped /\ last.ran = "set_material"
           /\ last.hout.v \in MaterialFailures) =>
     last.resp.status = "error"

\* the tool answers "Applied material" only when the handler applied one
C39_ToolReportsError ==
  (MaterialAnswered /\ call.outcome = "return") =>
     call.value = "material:applied"

\* C39: when the set_material handler fails (the object is not found or
\* cannot accept materials), the peer receives a Response with status
\* "error", and the set_material tool returns an error message and not an
\* "Applied material" message
C39_FailureReported == C39_ToolReportsError /\ C39_ErrorResponse

\* the value is a JSON value: an object with string keys, an array, a
\* number, a string, a boolean or null, nested or not
IsJsonValue(v) == \E p \in JsonTexts : p[1] = v

\* the call returned, and the last operation of the server was the step
\* that dispatched its Request
Returned == CallEnded /\ call.outcome = "return" /\ Stepped

Receiving == call.type \in ClientTypes /\ call.stage \in {"recv", "response"}

\* C21: the receive of a call is over within the timeout, counted from the
\* start of the receive: no call is in its receive loop, or has left it,
\* later than TIMEOUT seconds after it entered it, however the peer paces
\* its bytes
C21_OverallTimeout == Receiving => call.elapsed <= TIMEOUT

(* --------------------- properties of the two sides -------------------- *)

\* the Requests the calls have written on the connections 1..n
RECURSIVE WrittenUpTo(_)
WrittenUpTo(n) == IF n = 0 THEN 0 ELSE conn[n].cwrites + WrittenUpTo(n - 1)

\* C35: a Request is dispatched at most once: on every connection of the
\* client the server has parsed, and so dispatched, no more Requests than
\* were written; the calls together have written no more Requests than
\* there were calls, each call at most one, whether it failed or not; and a
\* step calls the dispatcher at most once, runs a handler only for the
\* Request it parsed, and takes the bytes of that Request out of the
\* stream and out of the buffer
C35_AtMostOnce ==
  /\ [](\A c \in Conns :
          conn[c].owner = "client" =>
            /\ conn[c].parsed <= conn[c].cwrites
            /\ conn[c].sent <= conn[c].parsed)
  /\ [](WrittenUpTo(MaxConns) <= ncalls /\ call.writes <= 1)
  /\ [](Stepped =>
          /\ last.dispatched <= 1
          /\ last.ran # None => (last.parsed /\ last.dispatched = 1)
          /\ last.parsed => last.dispatched = 1)
  /\ [][\A c \in Conns :
          (conn[c].owner = "client" /\ conn'[c].parsed # conn[c].parsed) =>
            /\ conn'[c].parsed = conn[c].parsed + 1
            /\ last'.dispatched = 1
            /\ last'.held = c
            /\ conn'[c].c2s = <<>>
            /\ conn'[c].got = <<>>
            /\ buffer' = <<>>]_vars

\* the call timed out and the server ran the handler of its Request
\* afterwards, once, and wrote the Response on the connection the caller
\* had given up
C35_Witness ==
  /\ CallEnded
  /\ call.outcome = "raise"
  /\ call.recv = "timeout"
  /\ sock = 0
  /\ Stepped
  /\ last.held = call.conn
  /\ last.ran = call.type
  /\ last.dispatched = 1
  /\ conn[call.conn].cwrites = 1
  /\ conn[call.conn].parsed = 1
  /\ conn[call.conn].sent = 1

\* what the handler of a command type of the caller returns: each type has
\* values of its own
ResultsOf(t) ==
  IF t = "get_polyhaven_status"
    THEN {PolyhavenStatus(TRUE), PolyhavenStatus(FALSE)}
    ELSE {h.v : h \in {o \in HandlerOutcomes : o.kind = "return"}}

\* C32: when send_command returns a result, the Response it decoded is the
\* answer to the Request this call wrote: the call wrote one Request on its
\* connection, every Request written on that connection has had its
\* Response consumed, the server has parsed and answered as many, and the
\* value is one the handler of the call's command type returns
C32_OwnResponse ==
  (CallEnded /\ call.outcome = "return") =>
    /\ call.stage = "response"
    /\ call.writes = 1
    /\ call.conn # 0
    /\ conn[call.conn].owner = "client"
    /\ conn[call.conn].cresp = conn[call.conn].cwrites
    /\ conn[call.conn].cwrites = conn[call.conn].parsed
    /\ conn[call.conn].parsed = conn[call.conn].sent
    /\ call.value \in ResultsOf(call.type)
    /\ call.response = Success(call.value)

\* the first call timed out, the server answered its Request afterwards on
\* the connection the caller had dropped, and the second call returned the
\* answer to its own Request on a new connection
C32_Witness ==
  /\ CallEnded
  /\ call.outcome = "return"
  /\ ncalls = 2
  /\ call.type = "get_polyhaven_status"
  /\ call.held = 0
  /\ call.conn = 2
  /\ conn[1].owner = "client"
  /\ conn[1].sent = 1
  /\ conn[1].cresp = 0
  /\ conn[1].s2c = Encode(Success("v"))

\* C2: on every connection requests and responses alternate: the server
\* has written no more Responses than it has parsed Requests, and on a
\* connection of the client the Requests written exceed the Responses
\* received by at most one; a call writes at most one Request, and while it
\* waits in the receive loop its Request is the only unanswered one
C2_Alternation ==
  /\ \A c \in Conns :
       /\ conn[c].sent <= conn[c].parsed
       /\ conn[c].owner = "client" =>
            /\ conn[c].cwrites <= conn[c].cresp + 1
            /\ conn[c].cresp <= conn[c].sent
            /\ conn[c].parsed <= conn[c].cwrites
  /\ call.writes <= 1
  /\ cpc = "recv" =>
       /\ call.writes = 1
       /\ conn[sock].cwrites = conn[sock].cresp + 1

\* a second call has written its Request on the connection on which the
\* first call received its Response
C2_Witness ==
  /\ cpc = "recv"
  /\ conn[sock].cwrites = 2
  /\ conn[sock].cresp = 1
  /\ conn[sock].sent = 1

====
